---- MODULE Spec2Model ----
(***************************************************************************)
(* Model of the quickwit indexing core.                                    *)
(*                                                                         *)
(* Part 1: the Indexer actor (quickwit-indexing/src/actors/indexer.rs).    *)
(* The state is the actor's fields (counters, indexing_workbench_opt,      *)
(* indexer_state.publish_lock), the CommitTimeout self-messages that are   *)
(* scheduled and not yet delivered, the shared alive/dead state of every   *)
(* PublishLock and the actor's exit status.  An actor handles one message  *)
(* at a time, and a handler is an async fn: an action is a handler as far  *)
(* as its first await or to its end, or the return of the await it is      *)
(* suspended at, as far as the next one or to the end.  The fields are     *)
(* written where the code writes them; the await, the handler's locals and *)
(* the state it started from are kept while it is suspended, when a        *)
(* PublishLock can be killed and the actors of the pipeline go on.  The    *)
(* workbench the handler took out to flush, what it sent to the packager's *)
(* mailbox and the calls it made to metastore.publish_splits are recorded  *)
(* with the message it handled, when it returns.  The workbenches          *)
(* committed and the batches the packager's mailbox has received are kept  *)
(* in their order for the whole run.                                       *)
(*                                                                         *)
(* The indexer's collaborators do not fail while it runs: the packager's   *)
(* mailbox is open, the index writer accepts every document and the        *)
(* metastore answers Ok, as the mock metastore of the tests does.          *)
(***************************************************************************)
EXTENDS Integers, Sequences, FiniteSets, TLC

\* ------------------------------------------------------------------ bounds

\* Largest number of documents in one RawDocBatch.
MaxBatchDocs == 2
\* Documents the indexer processes in a run (caps the counters).
MaxProcessed == 3
\* Workbenches created in a run (caps the Ulid supply).
MaxWorkbenches == 2
\* PublishLocks handed to the indexer by NewPublishLock in a run.
MaxLocks == 2
\* Spawn attempts that fail with a retryable error in a run of the supervisor.
MaxSpawnFailures == 2
\* Generations the supervisor spawns in a run.
MaxGenerations == 2
\* Largest small retry count test_wait_duration is run with.
MaxRetryCount == 12
MaxActorProgress == 2
MaxMergeSplits == 4
MaxNumDocs == 20

\* indexing_settings.split_num_docs_target, as test_indexer_simple sets it.
split_num_docs_target == 3

\* ------------------------------------------------------------------ values

\* Option<T>: None, or Some(x).
None == <<>>
Some(x) == <<x>>
IsSome(o) == o # <<>>
Unwrap(o) == o[1]

\* Source positions.
Positions == 0..3

\* The documents fed to the indexer: what prepare_document makes of each (its
\* outcome and, for a valid document, the partition key the doc mapper
\* derives) and its length in bytes.  Two valid documents of different
\* tenants, the unparsable "{" and a document missing its timestamp.
Docs ==
    {[outcome |-> "Document", partition |-> 1, len |-> 2],
     [outcome |-> "Document", partition |-> 2, len |-> 3],
     [outcome |-> "ParsingError", partition |-> 0, len |-> 1],
     [outcome |-> "MissingField", partition |-> 0, len |-> 2]}

RECURSIVE SeqsUpTo(_, _)
SeqsUpTo(S, n) ==
    IF n = 0 THEN {<<>>}
    ELSE LET shorter == SeqsUpTo(S, n - 1)
         IN  shorter \cup {Append(s, x) : s \in {t \in shorter : Len(t) = n - 1}, x \in S}

DocBatches == SeqsUpTo(Docs, MaxBatchDocs)

\* SourceCheckpointDelta: empty (the default), or the half-open range
\* <<from, to>> of the single source partition.
EmptyDelta == <<>>
RangeDeltas == {<<from, to>> : from \in Positions, to \in Positions} \ {d \in Positions \X Positions : d[1] >= d[2]}
Deltas == {EmptyDelta} \cup RangeDeltas

ExitStatuses == {"Success", "Quit", "Killed", "Failure", "Panicked", "DownstreamClosed"}

IndexerCountersDefault ==
    [num_parse_errors |-> 0, num_missing_fields |-> 0, num_valid_docs |-> 0,
     num_splits_emitted |-> 0, num_split_batches_emitted |-> 0,
     overall_num_bytes |-> 0, num_docs_in_workbench |-> 0]

num_processed_docs(c) == c.num_valid_docs + c.num_parse_errors + c.num_missing_fields

num_invalid_docs(c) == c.num_parse_errors + c.num_missing_fields

\* ------------------------------------------------------------------ state

VARIABLES
    counters,                \* Indexer.counters
    indexing_workbench_opt,  \* Indexer.indexing_workbench_opt
    publish_lock,            \* Indexer.indexer_state.publish_lock (a lock id)
    dead_locks,              \* the PublishLocks that are dead
    next_ulid,               \* the next value of Ulid::new()
    next_timeout,            \* workbench id of the oldest pending CommitTimeout
    exit_status,             \* None while the actor runs, else Some(status)
    last,                    \* the message handled last, and the handler's result
    packager_inbox,          \* IndexedSplitBatch messages the last handler sent
    publish_splits_calls,    \* metastore.publish_splits calls the last handler made
    taken,                   \* the workbench the last handler took out to flush
    fed,                     \* the documents of the batches the indexer did not
                             \* drop or reject: how many, of which outcome, their bytes
    ingested,                \* per partition key, the valid documents of those
                             \* batches handled since the workbench that is
                             \* current, or was just taken, was created
    suspended,               \* None between two handlers; else Some of the await
                             \* the running handler is suspended at, its message,
                             \* the workbench it holds in a local, and the state
                             \* it started from
    committed,               \* the ids of the workbenches send_to_packager took
                             \* out of indexing_workbench_opt, in the order of
                             \* the takes
    delivered                \* of every IndexedSplitBatch the packager's mailbox
                             \* has received since the indexer was created, in
                             \* the order of receipt: the id of the workbench it
                             \* was made from, the publish lock it carries and
                             \* the number of its splits

\* The pipeline supervisor (IndexingPipeline).
VARIABLES
    statistics,                        \* IndexingPipeline.statistics: generation, num_spawn_attempts, counters
    previous_generations_statistics,   \* IndexingPipeline.previous_generations_statistics
    handles,                           \* IndexingPipeline.handles: None, or Some(the generation's children)
    kill_switch,                       \* IndexingPipeline.kill_switch: which switch, and whether it is dead
    pending,                           \* self messages scheduled and not yet delivered
    pc,                                \* where the supervisor stands: in initialize, or in its message loop
    pipeline_exit_status,              \* None while the supervisor runs, else Some(status)
    pipeline_last,                     \* the message handled last, its inputs, what it scheduled
    spawned,                           \* the spawn attempts made and those that succeeded
    children,                          \* what the last spawn attempt created: mailboxes and actors, in order
    progressed,                        \* how many times a child's counter was incremented
    pipeline_suspended                 \* None between two handlers; else Some of the await the
                                       \* running handler is suspended at, its message, its
                                       \* locals, and the state it started from

\* The retry count wait_duration_before_retry is called with in
\* test_wait_duration, the build it runs in, and what it returns.
VARIABLES
    wait_retry_count,
    overflow_checks,
    wait_duration

\* The merge policy: the policy operations is called on, the vector it is
\* given, the vector as the call leaves it, the operations it returns; and
\* the number of documents max_num_splits_worst_case and
\* max_num_splits_ideal_case are called with, and what they return.
VARIABLES
    merge_policy,
    merge_input,
    merge_splits,
    merge_ops,
    max_num_splits_docs,
    max_num_splits,
    split_groups             \* what build_split_levels returns for the vector, called on its own

indexer_vars == <<counters, indexing_workbench_opt, publish_lock, dead_locks, next_ulid,
                  next_timeout, packager_inbox, publish_splits_calls, taken,
                  exit_status, last, fed, ingested, suspended, committed, delivered>>

pipeline_vars == <<statistics, previous_generations_statistics, handles, kill_switch,
                   pending, pc, pipeline_exit_status, pipeline_last, spawned, children,
                   progressed, pipeline_suspended>>

wait_vars == <<wait_retry_count, overflow_checks, wait_duration>>

merge_vars == <<merge_policy, merge_input, merge_splits, merge_ops,
                max_num_splits_docs, max_num_splits, split_groups>>

vars == <<indexer_vars, pipeline_vars, wait_vars, merge_vars>>

\* -------------------------------------------------------------- PublishLock

PublishLockIsDead(lock, dead) == lock \in dead

\* acquire() returns a guard, or nothing when the lock is dead.
PublishLockAcquire(lock, dead) == IF lock \in dead THEN None ELSE Some(lock)

\* ------------------------------------------------------ SourceCheckpointDelta

\* extend: [ok, delta].  Fails when the incoming range does not start where
\* the accumulated range ends; a delta without a range accepts any start.
SourceCheckpointDeltaExtend(current, delta) ==
    IF delta = EmptyDelta THEN [ok |-> TRUE, delta |-> current]
    ELSE IF current = EmptyDelta THEN [ok |-> TRUE, delta |-> delta]
    ELSE IF current[2] = delta[1] THEN [ok |-> TRUE, delta |-> <<current[1], delta[2]>>]
    ELSE [ok |-> FALSE, delta |-> current]

\* ------------------------------------------------------------- IndexerState

create_indexed_split(partition_id) ==
    [partition_id |-> partition_id, num_docs |-> 0]

\* splits is a function from the partition ids present to their IndexedSplit.
get_or_create_indexed_split(partition_id, splits) ==
    IF partition_id \in DOMAIN splits THEN splits
    ELSE (partition_id :> create_indexed_split(partition_id)) @@ splits

\* create_workbench giving the workbench PublishLock::default() instead of a
\* clone of the indexer's active lock.
create_workbench_default_lock(ulid, lock) ==
    [workbench_id |-> ulid,
     indexed_splits |-> <<>>,
     checkpoint_delta |-> EmptyDelta,
     publish_lock |-> 0]

create_workbench(ulid, lock) ==
    [workbench_id |-> ulid,
     indexed_splits |-> <<>>,
     checkpoint_delta |-> EmptyDelta,
     publish_lock |-> lock]

\* The current workbench, created when there is none (a CommitTimeout carrying
\* its id is then scheduled).
get_or_create_workbench(workbench_opt, ulid, lock) ==
    IF IsSome(workbench_opt) THEN Unwrap(workbench_opt)
    ELSE create_workbench(ulid, lock)

\* process_doc indexing every valid document into the split of the first
\* partition key the workbench has seen.
process_doc_one_split(doc, st) ==
    LET c1 == [st.counters EXCEPT !.overall_num_bytes = @ + doc.len]
    IN  CASE doc.outcome = "ParsingError" ->
               [counters |-> [c1 EXCEPT !.num_parse_errors = @ + 1],
                indexed_splits |-> st.indexed_splits]
          [] doc.outcome = "MissingField" ->
               [counters |-> [c1 EXCEPT !.num_missing_fields = @ + 1],
                indexed_splits |-> st.indexed_splits]
          [] doc.outcome = "Document" ->
               LET key == IF DOMAIN st.indexed_splits = {} THEN doc.partition
                          ELSE CHOOSE p \in DOMAIN st.indexed_splits : TRUE
                   splits == get_or_create_indexed_split(key, st.indexed_splits)
               IN  [counters |-> [c1 EXCEPT !.num_docs_in_workbench = @ + 1,
                                            !.num_valid_docs = @ + 1],
                    indexed_splits |->
                        [splits EXCEPT ![key] = [@ EXCEPT !.num_docs = @ + 1]]]

\* process_doc adding to overall_num_bytes the bytes of valid documents only.
process_doc_bytes_of_valid(doc, st) ==
    CASE doc.outcome = "ParsingError" ->
           [counters |-> [st.counters EXCEPT !.num_parse_errors = @ + 1],
            indexed_splits |-> st.indexed_splits]
      [] doc.outcome = "MissingField" ->
           [counters |-> [st.counters EXCEPT !.num_missing_fields = @ + 1],
            indexed_splits |-> st.indexed_splits]
      [] doc.outcome = "Document" ->
           LET splits == get_or_create_indexed_split(doc.partition, st.indexed_splits)
           IN  [counters |-> [st.counters EXCEPT !.overall_num_bytes = @ + doc.len,
                                                 !.num_docs_in_workbench = @ + 1,
                                                 !.num_valid_docs = @ + 1],
                indexed_splits |->
                    [splits EXCEPT ![doc.partition] = [@ EXCEPT !.num_docs = @ + 1]]]

\* process_doc with every invalid document counted as a parse error.
process_doc_all_parse_errors(doc, st) ==
    LET c1 == [st.counters EXCEPT !.overall_num_bytes = @ + doc.len]
    IN  IF doc.outcome = "Document"
        THEN LET splits == get_or_create_indexed_split(doc.partition, st.indexed_splits)
             IN  [counters |-> [c1 EXCEPT !.num_docs_in_workbench = @ + 1,
                                          !.num_valid_docs = @ + 1],
                  indexed_splits |->
                      [splits EXCEPT ![doc.partition] = [@ EXCEPT !.num_docs = @ + 1]]]
        ELSE [counters |-> [c1 EXCEPT !.num_parse_errors = @ + 1],
              indexed_splits |-> st.indexed_splits]

\* One iteration of the loop over batch.docs: st = [counters, indexed_splits].
process_doc(doc, st) ==
    LET c1 == [st.counters EXCEPT !.overall_num_bytes = @ + doc.len]
    IN  CASE doc.outcome = "ParsingError" ->
               [counters |-> [c1 EXCEPT !.num_parse_errors = @ + 1],
                indexed_splits |-> st.indexed_splits]
          [] doc.outcome = "MissingField" ->
               [counters |-> [c1 EXCEPT !.num_missing_fields = @ + 1],
                indexed_splits |-> st.indexed_splits]
          [] doc.outcome = "Document" ->
               LET splits == get_or_create_indexed_split(doc.partition, st.indexed_splits)
               IN  [counters |-> [c1 EXCEPT !.num_docs_in_workbench = @ + 1,
                                            !.num_valid_docs = @ + 1],
                    indexed_splits |->
                        [splits EXCEPT ![doc.partition] =
                            [@ EXCEPT !.num_docs = @ + 1]]]

RECURSIVE process_docs(_, _)
process_docs(docs, st) ==
    IF docs = <<>> THEN st
    ELSE process_docs(Tail(docs), process_doc(Head(docs), st))

\* IndexerState::process_batch without the is_dead() early return.
IndexerState_process_batch_no_dead_check(docs, delta, workbench_opt, c, ulid, lock, dead) ==
    LET wb == get_or_create_workbench(workbench_opt, ulid, lock)
        ext == SourceCheckpointDeltaExtend(wb.checkpoint_delta, delta)
        st == process_docs(docs, [counters |-> c, indexed_splits |-> wb.indexed_splits])
    IN  IF ~ext.ok
        THEN [result |-> "Err", workbench_opt |-> Some(wb), counters |-> c]
        ELSE [result |-> "Ok",
              workbench_opt |-> Some([wb EXCEPT !.checkpoint_delta = ext.delta,
                                                !.indexed_splits = st.indexed_splits]),
              counters |-> st.counters]

\* IndexerState::process_batch: [result, workbench_opt, counters], result
\* being "Ok" or "Err".
IndexerState_process_batch(docs, delta, workbench_opt, c, ulid, lock, dead) ==
    LET wb == get_or_create_workbench(workbench_opt, ulid, lock)
        ext == SourceCheckpointDeltaExtend(wb.checkpoint_delta, delta)
        st == process_docs(docs, [counters |-> c, indexed_splits |-> wb.indexed_splits])
    IN  IF PublishLockIsDead(wb.publish_lock, dead)
        THEN [result |-> "Ok", workbench_opt |-> Some(wb), counters |-> c]
        ELSE IF ~ext.ok
        THEN [result |-> "Err", workbench_opt |-> Some(wb), counters |-> c]
        ELSE [result |-> "Ok",
              workbench_opt |-> Some([wb EXCEPT !.checkpoint_delta = ext.delta,
                                                !.indexed_splits = st.indexed_splits]),
              counters |-> st.counters]

\* ------------------------------------------------------------------ Indexer

IndexedSplitBatch(wb) ==
    [splits |-> wb.indexed_splits,
     checkpoint_delta |-> Some(wb.checkpoint_delta),
     publish_lock |-> wb.publish_lock]

\* The arguments of metastore.publish_splits(index_id, &[], &[], Some(delta)).
PublishSplitsCall(wb) ==
    [split_ids |-> <<>>, replaced_split_ids |-> <<>>,
     checkpoint_delta_opt |-> Some(wb.checkpoint_delta)]

\* send_to_packager that drops a workbench without splits, its checkpoint
\* delta unpublished.
send_to_packager_no_publish(s, dead) ==
    IF ~IsSome(s.workbench_opt)
    THEN [s EXCEPT !.result = "Ok"]
    ELSE LET wb == Unwrap(s.workbench_opt)
             flushing == [s EXCEPT !.workbench_opt = None, !.taken = Some(wb), !.result = "Ok"]
             num_splits == Cardinality(DOMAIN wb.indexed_splits)
         IN  IF num_splits = 0
             THEN flushing
             ELSE [flushing EXCEPT !.inbox = Append(@, IndexedSplitBatch(wb)),
                                   !.counters = [@ EXCEPT !.num_docs_in_workbench = 0,
                                                          !.num_splits_emitted = @ + num_splits,
                                                          !.num_split_batches_emitted = @ + 1]]

\* send_to_packager that publishes the checkpoint of a workbench without
\* splits whether its publish lock is alive or dead.
send_to_packager_no_acquire(s, dead) ==
    IF ~IsSome(s.workbench_opt)
    THEN [s EXCEPT !.result = "Ok"]
    ELSE LET wb == Unwrap(s.workbench_opt)
             flushing == [s EXCEPT !.workbench_opt = None, !.taken = Some(wb), !.result = "Ok"]
             num_splits == Cardinality(DOMAIN wb.indexed_splits)
         IN  IF num_splits = 0
             THEN [flushing EXCEPT !.calls = Append(@, PublishSplitsCall(wb))]
             ELSE [flushing EXCEPT !.inbox = Append(@, IndexedSplitBatch(wb)),
                                   !.counters = [@ EXCEPT !.num_docs_in_workbench = 0,
                                                          !.num_splits_emitted = @ + num_splits,
                                                          !.num_split_batches_emitted = @ + 1]]

\* send_to_packager sending the batch of a workbench without splits as it
\* sends any other.
send_to_packager_always_sends(s, dead) ==
    IF ~IsSome(s.workbench_opt)
    THEN [s EXCEPT !.result = "Ok"]
    ELSE LET wb == Unwrap(s.workbench_opt)
             flushing == [s EXCEPT !.workbench_opt = None, !.taken = Some(wb), !.result = "Ok"]
             num_splits == Cardinality(DOMAIN wb.indexed_splits)
         IN  [flushing EXCEPT !.inbox = Append(@, IndexedSplitBatch(wb)),
                              !.counters = [@ EXCEPT !.num_docs_in_workbench = 0,
                                                     !.num_splits_emitted = @ + num_splits,
                                                     !.num_split_batches_emitted = @ + 1]]

\* send_to_packager that publishes the checkpoint of every workbench it
\* flushes under the guard, the workbenches with splits included.
send_to_packager_publishes_always(s, dead) ==
    IF ~IsSome(s.workbench_opt)
    THEN [s EXCEPT !.result = "Ok"]
    ELSE LET wb == Unwrap(s.workbench_opt)
             flushing == [s EXCEPT !.workbench_opt = None, !.taken = Some(wb), !.result = "Ok"]
             num_splits == Cardinality(DOMAIN wb.indexed_splits)
             published == IF IsSome(PublishLockAcquire(wb.publish_lock, dead))
                          THEN [flushing EXCEPT !.calls = Append(@, PublishSplitsCall(wb))]
                          ELSE flushing
         IN  IF num_splits = 0
             THEN published
             ELSE [published EXCEPT !.counters = [@ EXCEPT !.num_docs_in_workbench = 0]]

\* Indexer::send_to_packager on the state s = [workbench_opt, counters, inbox,
\* calls, taken, result]: the state it leaves, and its result.  inbox and
\* calls are what the handler has sent to the packager and asked of the
\* metastore, taken the workbench that indexing_workbench_opt.take() gave.
send_to_packager(s, dead) ==
    IF ~IsSome(s.workbench_opt)
    THEN [s EXCEPT !.result = "Ok"]
    ELSE LET wb == Unwrap(s.workbench_opt)
             flushing == [s EXCEPT !.workbench_opt = None, !.taken = Some(wb), !.result = "Ok"]
             num_splits == Cardinality(DOMAIN wb.indexed_splits)
         IN  IF num_splits = 0
             THEN IF IsSome(PublishLockAcquire(wb.publish_lock, dead))
                  THEN [flushing EXCEPT !.calls = Append(@, PublishSplitsCall(wb))]
                  ELSE flushing
             ELSE [flushing EXCEPT !.inbox = Append(@, IndexedSplitBatch(wb)),
                                   !.counters = [@ EXCEPT !.num_docs_in_workbench = 0,
                                                          !.num_splits_emitted = @ + num_splits,
                                                          !.num_split_batches_emitted = @ + 1]]

\* Indexer::process_batch committing only once the target is exceeded.
Indexer_process_batch_above_target(docs, delta, s, ulid, lock, dead) ==
    LET r == IndexerState_process_batch(docs, delta, s.workbench_opt, s.counters,
                                        ulid, lock, dead)
        s1 == [s EXCEPT !.workbench_opt = r.workbench_opt,
                        !.counters = r.counters,
                        !.result = r.result]
    IN  IF r.result = "Err" THEN s1
        ELSE IF r.counters.num_docs_in_workbench > split_num_docs_target
        THEN send_to_packager(s1, dead)
        ELSE s1

\* Indexer::process_batch on the state s.
Indexer_process_batch(docs, delta, s, ulid, lock, dead) ==
    LET r == IndexerState_process_batch(docs, delta, s.workbench_opt, s.counters,
                                        ulid, lock, dead)
        s1 == [s EXCEPT !.workbench_opt = r.workbench_opt,
                        !.counters = r.counters,
                        !.result = r.result]
    IN  IF r.result = "Err" THEN s1
        ELSE IF r.counters.num_docs_in_workbench >= split_num_docs_target
        THEN send_to_packager(s1, dead)
        ELSE s1

\* Handler<CommitTimeout> without the comparison of workbench ids.
handle_commit_timeout_any_id(workbench_id, s, dead) == send_to_packager(s, dead)

\* Handler<CommitTimeout> ignoring the CommitTimeout of the current
\* workbench.
handle_commit_timeout_ignored(workbench_id, s, dead) ==
    IF IsSome(s.workbench_opt)
    THEN [s EXCEPT !.result = "Ok"]
    ELSE send_to_packager(s, dead)

\* Handler<CommitTimeout>::handle on the state s.
handle_commit_timeout(workbench_id, s, dead) ==
    IF IsSome(s.workbench_opt) /\ Unwrap(s.workbench_opt).workbench_id # workbench_id
    THEN [s EXCEPT !.result = "Ok"]
    ELSE send_to_packager(s, dead)

\* finalize flushing on Killed as on a graceful exit.
finalize_flush_on_killed(status, s, dead) ==
    IF status \in {"DownstreamClosed", "Failure", "Panicked"}
    THEN [s EXCEPT !.result = "Ok"]
    ELSE send_to_packager(s, dead)

\* Actor::finalize on the state s.
finalize(status, s, dead) ==
    IF status \in {"DownstreamClosed", "Killed", "Failure", "Panicked"}
    THEN [s EXCEPT !.result = "Ok"]
    ELSE send_to_packager(s, dead)

\* ------------------------------------------------------------------ actions

Running == exit_status = None

\* The state a handler starts from.
Current ==
    [workbench_opt |-> indexing_workbench_opt, counters |-> counters,
     inbox |-> <<>>, calls |-> <<>>, taken |-> None, result |-> "Ok"]

\* The handler leaves the state s.  A handler that returns an error makes the
\* actor exit with Failure, and finalize(Failure) then changes nothing.
Commit(s) ==
    /\ indexing_workbench_opt' = s.workbench_opt
    /\ counters' = s.counters
    /\ packager_inbox' = s.inbox
    /\ publish_splits_calls' = s.calls
    /\ taken' = s.taken
    /\ exit_status' = IF s.result = "Err" THEN Some("Failure") ELSE exit_status

Handled(msg, result, delta, id) ==
    [msg |-> msg, result |-> result, delta |-> delta, id |-> id]

CountOutcome(docs, outcome) == Cardinality({i \in DOMAIN docs : docs[i].outcome = outcome})

RECURSIVE SumLen(_)
SumLen(docs) == IF docs = <<>> THEN 0 ELSE Head(docs).len + SumLen(Tail(docs))

\* The batch reached the loop over its documents: the lock of the workbench
\* it was handled under was alive and its delta extended the workbench's.
Accepted(delta, wb) ==
    /\ ~PublishLockIsDead(wb.publish_lock, dead_locks)
    /\ SourceCheckpointDeltaExtend(wb.checkpoint_delta, delta).ok

Feed(docs) ==
    [docs |-> fed.docs + Len(docs),
     bytes |-> fed.bytes + SumLen(docs),
     valid |-> fed.valid + CountOutcome(docs, "Document"),
     parse_errors |-> fed.parse_errors + CountOutcome(docs, "ParsingError"),
     missing_fields |-> fed.missing_fields + CountOutcome(docs, "MissingField")]

Partitions == {doc.partition : doc \in {d \in Docs : d.outcome = "Document"}}

NoneIngested == [p \in Partitions |-> 0]

\* The valid documents of docs, counted by partition key, added to those
\* counted in base.
Ingest(docs, base) ==
    [p \in Partitions |->
        base[p] + Cardinality({i \in DOMAIN docs : /\ docs[i].outcome = "Document"
                                                    /\ docs[i].partition = p})]

\* IndexingStatistics::default(): the two fields the supervisor itself
\* writes, and one counter for each of the actors it observes.
IndexingStatisticsDefault ==
    [generation |-> 0, num_spawn_attempts |-> 0,
     num_docs |-> 0, num_uploaded_splits |-> 0, num_published_splits |-> 0]

\* The counters of a newly spawned indexer, uploader and publisher.
ActorCountersDefault == [indexer |-> 0, uploader |-> 0, publisher |-> 0]

\* IndexingPipeline::new.
IndexingPipelineNew ==
    /\ statistics = IndexingStatisticsDefault
    /\ previous_generations_statistics = IndexingStatisticsDefault
    /\ handles = None
    /\ kill_switch = [id |-> 0, dead |-> FALSE]
    /\ pending = {}
    /\ pc = "initialize_spawn"
    /\ pipeline_exit_status = None
    /\ pipeline_last = [msg |-> "None", retry_count |-> 0, outcome |-> "None",
                         healths |-> None, scheduled |-> {}, killed |-> {},
                         result |-> "Ok"]
    /\ spawned = [attempts |-> 0, successes |-> 0]
    /\ children = <<>>
    /\ progressed = 0
    /\ pipeline_suspended = None

\* test_wait_duration has not run.
WaitDurationNotRun ==
    /\ wait_retry_count = None
    /\ overflow_checks = TRUE
    /\ wait_duration = None

\* The merge policy has not been called.
MergePolicyNotRun ==
    /\ merge_policy = None
    /\ merge_input = <<>>
    /\ merge_splits = <<>>
    /\ merge_ops = None
    /\ max_num_splits_docs = None
    /\ max_num_splits = [worst_case |-> None, ideal_case |-> None]
    /\ split_groups = None

\* Indexer::new.
IndexerNew ==
    /\ counters = IndexerCountersDefault
    /\ indexing_workbench_opt = None
    /\ publish_lock = 0
    /\ dead_locks = {}
    /\ next_ulid = 1
    /\ next_timeout = 1
    /\ packager_inbox = <<>>
    /\ publish_splits_calls = <<>>
    /\ taken = None
    /\ exit_status = None
    /\ last = Handled("None", "Ok", EmptyDelta, 0)
    /\ fed = [docs |-> 0, bytes |-> 0, valid |-> 0, parse_errors |-> 0, missing_fields |-> 0]
    /\ ingested = NoneIngested
    /\ suspended = None
    /\ committed = <<>>
    /\ delivered = <<>>

Init ==
    /\ IndexerNew
    /\ IndexingPipelineNew
    /\ WaitDurationNotRun
    /\ MergePolicyNotRun

\* No handler runs: the actor is between two messages.
Idle == Running /\ ~IsSome(suspended)

\* The fields claims compare a handler's result with, as they are when the
\* handler starts.
Before ==
    [counters |-> counters, workbench_opt |-> indexing_workbench_opt,
     next_ulid |-> next_ulid, dead_locks |-> dead_locks, last |-> last]

\* The handler of msg is suspended at the await at, holding the workbench wb
\* in a local.
Suspend(at, msg, docs, delta, id, status, wb, before) ==
    suspended' = Some([at |-> at, msg |-> msg, docs |-> docs, delta |-> delta, id |-> id,
                       status |-> status, workbench |-> wb, before |-> before])

\* The await send_to_packager reaches first with the workbench wb it took:
\* publish_lock.acquire() without splits, ctx.send_message with splits.
AwaitOfFlush(wb) ==
    IF Cardinality(DOMAIN wb.indexed_splits) = 0 THEN "acquire" ELSE "send_message"

\* The handler returns, leaving the state s.
Return(msg, delta, id, s) ==
    /\ Commit(s)
    /\ last' = Handled(msg, s.result, delta, id)
    /\ suspended' = None
    /\ UNCHANGED <<committed, delivered>>

\* send_to_packager as far as its first await: the workbench wb is taken out
\* of indexing_workbench_opt, the counters c are not reset yet, nothing is
\* sent or published yet.
TakeWorkbench(msg, delta, id, status, c, wb, before) ==
    /\ indexing_workbench_opt' = None
    /\ counters' = c
    /\ packager_inbox' = <<>>
    /\ publish_splits_calls' = <<>>
    /\ taken' = Some(wb)
    /\ exit_status' = exit_status
    /\ last' = Handled("Await", "Ok", delta, id)
    /\ Suspend(AwaitOfFlush(wb), msg, <<>>, delta, id, status, wb, before)
    /\ committed' = Append(committed, wb.workbench_id)
    /\ delivered' = delivered

\* IndexerState::process_batch from `if publish_lock.is_dead()` on, and the
\* commit Indexer::process_batch makes of a workbench that has reached the
\* target, as far as the first await of send_to_packager.  s holds the
\* workbench get_or_create_workbench returned.
ProcessBatch(docs, delta, s, before) ==
    LET r == IndexerState_process_batch(docs, delta, s.workbench_opt, s.counters,
                                        next_ulid, publish_lock, dead_locks)
        done == Indexer_process_batch(docs, delta, s, next_ulid, publish_lock, dead_locks)
        accepted == Accepted(delta, Unwrap(s.workbench_opt))
        base == IF IsSome(indexing_workbench_opt) THEN ingested ELSE NoneIngested
    IN  /\ IF IsSome(done.taken)
           THEN TakeWorkbench("RawDocBatch", delta, 0, "None", r.counters, Unwrap(done.taken),
                              [before EXCEPT !.dead_locks = dead_locks])
           ELSE Return("RawDocBatch", delta, 0, done)
        /\ fed' = IF accepted THEN Feed(docs) ELSE fed
        /\ ingested' = IF accepted THEN Ingest(docs, base) ELSE base

\* Handler<RawDocBatch>, as far as its first await or to its end.  Without a
\* workbench, get_or_create_workbench creates one and awaits
\* ctx.schedule_self_msg(commit_timeout, CommitTimeout { workbench_id })
\* before it stores it.
HandleRawDocBatch(docs, delta) ==
    /\ Idle
    /\ num_processed_docs(counters) + Len(docs) <= MaxProcessed
    /\ IsSome(indexing_workbench_opt) \/ next_ulid <= MaxWorkbenches
    /\ IF IsSome(indexing_workbench_opt)
       THEN /\ ProcessBatch(docs, delta, Current, Before)
            /\ next_ulid' = next_ulid
       ELSE /\ Suspend("schedule_self_msg", "RawDocBatch", docs, delta, 0, "None",
                       get_or_create_workbench(None, next_ulid, publish_lock), Before)
            /\ next_ulid' = next_ulid + 1
            /\ last' = Handled("Await", "Ok", delta, 0)
            /\ packager_inbox' = <<>>
            /\ publish_splits_calls' = <<>>
            /\ taken' = None
            /\ ingested' = NoneIngested
            /\ UNCHANGED <<indexing_workbench_opt, counters, exit_status, fed,
                           committed, delivered>>
    /\ UNCHANGED <<publish_lock, dead_locks, next_timeout>>
    /\ UNCHANGED <<pipeline_vars, wait_vars, merge_vars>>

\* ctx.schedule_self_msg(..).await returns in get_or_create_workbench: the
\* workbench is stored and the handler goes on, to its next await or to its
\* end.
AwaitScheduleSelfMsg ==
    /\ Running
    /\ IsSome(suspended)
    /\ Unwrap(suspended).at = "schedule_self_msg"
    /\ LET h == Unwrap(suspended)
       IN  ProcessBatch(h.docs, h.delta, [Current EXCEPT !.workbench_opt = Some(h.workbench)],
                        h.before)
    /\ UNCHANGED <<publish_lock, dead_locks, next_ulid, next_timeout>>
    /\ UNCHANGED <<pipeline_vars, wait_vars, merge_vars>>

\* What the packager's mailbox keeps of the batch made from the workbench wb.
Delivery(wb, batch) ==
    [workbench_id |-> wb.workbench_id,
     publish_lock |-> batch.publish_lock,
     num_splits |-> Cardinality(DOMAIN batch.splits)]

\* send_to_packager, of the handler of msg, runs from its first await to its
\* end: what it does with the workbench wb it took is send_to_packager on the
\* state before the take, the publish lock being read now.
Flush(h) ==
    LET s == send_to_packager([Current EXCEPT !.workbench_opt = Some(h.workbench)], dead_locks)
    IN  /\ indexing_workbench_opt' = s.workbench_opt
        /\ counters' = s.counters
        /\ packager_inbox' = s.inbox
        /\ publish_splits_calls' = s.calls
        /\ taken' = s.taken
        /\ exit_status' = IF h.msg = "Exit" THEN Some(h.status)
                          ELSE IF s.result = "Err" THEN Some("Failure")
                          ELSE exit_status
        /\ last' = Handled(h.msg, s.result, h.delta, h.id)
        /\ suspended' = None
        /\ committed' = committed
        /\ delivered' = delivered \o [i \in DOMAIN s.inbox |-> Delivery(h.workbench, s.inbox[i])]

\* publish_lock.acquire().await returns in send_to_packager: with a guard,
\* the handler calls metastore.publish_splits and awaits it, holding the
\* guard; with None (the lock is dead), send_to_packager returns.
AwaitAcquire ==
    /\ Running
    /\ IsSome(suspended)
    /\ Unwrap(suspended).at = "acquire"
    /\ IF IsSome(PublishLockAcquire(Unwrap(suspended).workbench.publish_lock, dead_locks))
       THEN /\ suspended' = Some([Unwrap(suspended) EXCEPT !.at = "publish_splits"])
            /\ UNCHANGED <<indexing_workbench_opt, counters, packager_inbox,
                           publish_splits_calls, taken, exit_status, last,
                           committed, delivered>>
       ELSE Flush(Unwrap(suspended))
    /\ UNCHANGED <<publish_lock, dead_locks, next_ulid, next_timeout, fed, ingested>>
    /\ UNCHANGED <<pipeline_vars, wait_vars, merge_vars>>

\* metastore.publish_splits(..).await returns Ok, the guard is dropped and
\* send_to_packager returns.
AwaitPublishSplits ==
    /\ Running
    /\ IsSome(suspended)
    /\ Unwrap(suspended).at = "publish_splits"
    /\ Flush(Unwrap(suspended))
    /\ UNCHANGED <<publish_lock, dead_locks, next_ulid, next_timeout, fed, ingested>>
    /\ UNCHANGED <<pipeline_vars, wait_vars, merge_vars>>

\* ctx.send_message(&self.packager_mailbox, ..).await returns Ok: the batch
\* is in the packager's inbox, and the counters are reset.
AwaitSendMessage ==
    /\ Running
    /\ IsSome(suspended)
    /\ Unwrap(suspended).at = "send_message"
    /\ Flush(Unwrap(suspended))
    /\ UNCHANGED <<publish_lock, dead_locks, next_ulid, next_timeout, fed, ingested>>
    /\ UNCHANGED <<pipeline_vars, wait_vars, merge_vars>>

\* Handler<CommitTimeout>, as far as the first await of send_to_packager or
\* to its end: the delivery of the oldest scheduled CommitTimeout.
\* get_or_create_workbench schedules one CommitTimeout per workbench it
\* creates, all with the same delay, so the pending ones are those of the
\* workbenches next_timeout .. next_ulid - 1, delivered in that order.
HandleCommitTimeout(workbench_id) ==
    /\ Idle
    /\ workbench_id = next_timeout
    /\ workbench_id < next_ulid
    /\ \E s \in {handle_commit_timeout(workbench_id, Current, dead_locks)} :
           IF IsSome(s.taken)
           THEN TakeWorkbench("CommitTimeout", EmptyDelta, workbench_id, "None", counters,
                              Unwrap(s.taken), Before)
           ELSE Return("CommitTimeout", EmptyDelta, workbench_id, s)
    /\ next_timeout' = workbench_id + 1
    /\ ingested' = IF IsSome(indexing_workbench_opt) THEN ingested ELSE NoneIngested
    /\ UNCHANGED <<publish_lock, dead_locks, next_ulid, fed>>
    /\ UNCHANGED <<pipeline_vars, wait_vars, merge_vars>>

\* Handler<NewPublishLock> replacing the lock and keeping the workbench.
HandleNewPublishLock_keep_workbench(alive) ==
    /\ Idle
    /\ publish_lock < MaxLocks
    /\ publish_lock' = publish_lock + 1
    /\ dead_locks' = IF alive THEN dead_locks ELSE dead_locks \cup {publish_lock + 1}
    /\ last' = Handled("NewPublishLock", "Ok", EmptyDelta, publish_lock + 1)
    /\ packager_inbox' = <<>>
    /\ publish_splits_calls' = <<>>
    /\ taken' = None
    /\ UNCHANGED <<indexing_workbench_opt, counters, next_ulid, next_timeout, exit_status,
                   fed, ingested, suspended, committed, delivered>>
    /\ UNCHANGED <<pipeline_vars, wait_vars, merge_vars>>

\* Handler<NewPublishLock>: the source hands over a new lock, alive or dead
\* (PublishLock::for_test(alive, id)).
HandleNewPublishLock(alive) ==
    /\ Idle
    /\ publish_lock < MaxLocks
    /\ indexing_workbench_opt' = None
    /\ publish_lock' = publish_lock + 1
    /\ dead_locks' = IF alive THEN dead_locks ELSE dead_locks \cup {publish_lock + 1}
    /\ last' = Handled("NewPublishLock", "Ok", EmptyDelta, publish_lock + 1)
    /\ packager_inbox' = <<>>
    /\ publish_splits_calls' = <<>>
    /\ taken' = None
    /\ ingested' = NoneIngested
    /\ UNCHANGED <<counters, next_ulid, next_timeout, exit_status, fed, suspended,
                   committed, delivered>>
    /\ UNCHANGED <<pipeline_vars, wait_vars, merge_vars>>

\* PublishLock::kill, by a holder of a clone of the indexer's active lock (the
\* indexer never reads a lock it has replaced): between two handlers, or
\* while the handler that runs is suspended at an await.  kill() waits for
\* the guard, so it does not return while the handler awaits publish_splits.
KillPublishLock ==
    /\ Running
    /\ publish_lock \notin dead_locks
    /\ IsSome(suspended) => Unwrap(suspended).at # "publish_splits"
    /\ dead_locks' = dead_locks \cup {publish_lock}
    /\ IF IsSome(suspended)
       THEN UNCHANGED <<last, packager_inbox, publish_splits_calls, taken, ingested>>
       ELSE /\ last' = Handled("KillPublishLock", "Ok", EmptyDelta, publish_lock)
            /\ packager_inbox' = <<>>
            /\ publish_splits_calls' = <<>>
            /\ taken' = None
            /\ ingested' = IF IsSome(indexing_workbench_opt) THEN ingested ELSE NoneIngested
    /\ UNCHANGED <<counters, indexing_workbench_opt, publish_lock, next_ulid,
                   next_timeout, exit_status, fed, suspended, committed, delivered>>
    /\ UNCHANGED <<pipeline_vars, wait_vars, merge_vars>>

\* The actor exits with a status decided outside its handlers (a Quit or
\* ExitWithSuccess command, the kill switch, a panic, a closed downstream),
\* and finalize runs, as far as the first await of send_to_packager or to its
\* end.
Exit(status) ==
    /\ Idle
    /\ status \in ExitStatuses \ {"Failure"}
    /\ \E s \in {finalize(status, Current, dead_locks)} :
           IF IsSome(s.taken)
           THEN TakeWorkbench("Exit", EmptyDelta, 0, status, counters, Unwrap(s.taken), Before)
           ELSE /\ indexing_workbench_opt' = s.workbench_opt
                /\ counters' = s.counters
                /\ packager_inbox' = s.inbox
                /\ publish_splits_calls' = s.calls
                /\ taken' = s.taken
                /\ last' = Handled("Exit", s.result, EmptyDelta, 0)
                /\ exit_status' = Some(status)
                /\ suspended' = None
                /\ UNCHANGED <<committed, delivered>>
    /\ ingested' = IF IsSome(indexing_workbench_opt) THEN ingested ELSE NoneIngested
    /\ UNCHANGED <<publish_lock, dead_locks, next_ulid, next_timeout, fed>>
    /\ UNCHANGED <<pipeline_vars, wait_vars, merge_vars>>

\* An await of the handler that runs returns.
Resume ==
    \/ AwaitScheduleSelfMsg
    \/ AwaitAcquire
    \/ AwaitPublishSplits
    \/ AwaitSendMessage

Next ==
    \/ \E docs \in DocBatches, delta \in Deltas : HandleRawDocBatch(docs, delta)
    \/ \E workbench_id \in 1..MaxWorkbenches : HandleCommitTimeout(workbench_id)
    \/ \E alive \in BOOLEAN : HandleNewPublishLock(alive)
    \/ KillPublishLock
    \/ \E status \in ExitStatuses : Exit(status)
    \/ AwaitScheduleSelfMsg
    \/ AwaitAcquire
    \/ AwaitPublishSplits
    \/ AwaitSendMessage

Spec == Init /\ [][Next]_vars

\* The batches of the runs that follow the commit timeouts: of one document
\* at most, with no checkpoint delta or with one of a single position, of the
\* first two.
TimerDocBatches == {docs \in DocBatches : Len(docs) <= 1}
TimerDeltas == {EmptyDelta, <<0, 1>>, <<1, 2>>}

\* The delivery of the oldest CommitTimeout scheduled.
CommitTimeoutDelivered ==
    \E workbench_id \in 1..MaxWorkbenches : HandleCommitTimeout(workbench_id)

TimerNext ==
    \/ \E docs \in TimerDocBatches, delta \in TimerDeltas : HandleRawDocBatch(docs, delta)
    \/ CommitTimeoutDelivered
    \/ \E alive \in BOOLEAN : HandleNewPublishLock(alive)
    \/ KillPublishLock
    \/ \E status \in ExitStatuses : Exit(status)
    \/ AwaitScheduleSelfMsg
    \/ AwaitAcquire
    \/ AwaitPublishSplits
    \/ AwaitSendMessage

\* A CommitTimeout scheduled with ctx.schedule_self_msg is delivered when
\* its delay has elapsed, as long as the indexer runs and handles no message;
\* and the runtime polls the handler that awaits, whose awaits return: the
\* scheduler, the publish lock, the metastore and the mailbox of the packager
\* answer.
TimerSpec ==
    Init /\ [][TimerNext]_vars /\ WF_vars(CommitTimeoutDelivered) /\ WF_vars(Resume)

\* --------------------------------------------------------- IndexingPipeline

MAX_RETRY_DELAY == 600

\* The actors of supervisables().
NumSupervisables == 14

\* Durations: a number of seconds, or quickwit_actors::HEARTBEAT.  Panicked
\* stands for the panic of an arithmetic overflow in a build that checks it.
Duration_from_secs(n) == [kind |-> "secs", n |-> n]
HEARTBEAT == [kind |-> "HEARTBEAT", n |-> 1]
Panicked == [kind |-> "panic", n |-> 0]

\* A usize, as top * 2^32 + hi * 2^16 + lo.
Usize(n) == [top |-> 0, hi |-> 0, lo |-> n]

\* min(2^power, cap), by doubling.
RECURSIVE Pow2Min(_, _)
Pow2Min(power, cap) ==
    IF power = 0 THEN 1
    ELSE LET half == Pow2Min(power - 1, cap)
         IN  IF 2 * half > cap THEN cap ELSE 2 * half

\* IndexingPipeline::wait_duration_before_retry.  retry_count as u32 keeps
\* the low 32 bits; + 1 overflows on u32::MAX: a panic where overflow checks
\* are compiled in, a wrap to 0 where they are not.
wait_duration_before_retry(retry_count, checks) ==
    LET overflow == retry_count.hi = 2^16 - 1 /\ retry_count.lo = 2^16 - 1
        plus_one == IF overflow THEN [hi |-> 0, lo |-> 0]
                    ELSE IF retry_count.lo = 2^16 - 1
                    THEN [hi |-> retry_count.hi + 1, lo |-> 0]
                    ELSE [hi |-> retry_count.hi, lo |-> retry_count.lo + 1]
        max_power == IF plus_one.hi > 0 \/ plus_one.lo > 31 THEN 31 ELSE plus_one.lo
    IN  IF overflow /\ checks THEN Panicked
        ELSE Duration_from_secs(Pow2Min(max_power, MAX_RETRY_DELAY))

\* What supervisable.health() answers over the actors of supervisables(): how
\* many are Healthy, FailureOrUnhealthy, Success.
ChildrenHealths ==
    {[healthy |-> h, failure_or_unhealthy |-> f, success |-> NumSupervisables - h - f] :
        <<h, f>> \in {x \in (0..NumSupervisables) \X (0..NumSupervisables) :
                         x[1] + x[2] <= NumSupervisables}}

\* healthcheck answering Success as soon as no actor is Healthy.
healthcheck_success_first(healths) ==
    IF healths.healthy = 0 THEN "Success"
    ELSE IF healths.failure_or_unhealthy # 0 THEN "FailureOrUnhealthy"
    ELSE "Healthy"

\* IndexingPipeline::healthcheck: the three lists of actor names are
\* compared with the empty list only.
healthcheck(healths) ==
    IF healths.failure_or_unhealthy # 0 THEN "FailureOrUnhealthy"
    ELSE IF healths.healthy = 0 THEN "Success"
    ELSE "Healthy"

\* Self messages.
SpawnMsg(retry_count, delay) == [msg |-> "Spawn", retry_count |-> retry_count, delay |-> delay]
SuperviseMsg(delay) == [msg |-> "Supervise", retry_count |-> 0, delay |-> delay]
ObserveMsg(delay) == [msg |-> "Observe", retry_count |-> 0, delay |-> delay]

\* What a spawn attempt meets: no error, MetastoreError::IndexDoesNotExist,
\* or another error.
SpawnOutcomes == {"Ok", "IndexDoesNotExist", "OtherError"}

\* The actors of supervisables(), by name.
Supervisables ==
    {"SourceActor", "Indexer", "Packager", "Uploader", "Sequencer", "Publisher",
     "GarbageCollector", "MergePlanner", "MergeSplitDownloader", "MergeExecutor",
     "MergePackager", "MergeUploader", "MergeSequencer", "MergePublisher"}

\* A step of spawn_pipeline: a call that can fail (op "try"), create_mailbox
\* for an actor, or ctx.spawn_actor of an actor, with the actors whose
\* mailboxes the step takes: those the actor sends to and, with
\* set_mailboxes, its own.
SpawnStep(op, actor, mailboxes) == [op |-> op, actor |-> actor, mailboxes |-> mailboxes]

\* The steps of spawn_pipeline with the merge planner's mailbox created
\* where the merge planner is spawned.
SpawnSequence_planner_mailbox_late ==
    << SpawnStep("try", "create_with_local_store", {}),
       SpawnStep("try", "list_splits", {}),
       SpawnStep("try", "remove_dangling_splits", {}),
       SpawnStep("spawn_actor", "GarbageCollector", {}),
       SpawnStep("spawn_actor", "MergePublisher", {"MergePlanner", "GarbageCollector"}),
       SpawnStep("spawn_actor", "MergeSequencer", {"MergePublisher"}),
       SpawnStep("spawn_actor", "MergeUploader", {"MergeSequencer"}),
       SpawnStep("try", "tag_fields", {}),
       SpawnStep("spawn_actor", "MergePackager", {"MergeUploader"}),
       SpawnStep("spawn_actor", "MergeExecutor", {"MergePackager"}),
       SpawnStep("spawn_actor", "MergeSplitDownloader", {"MergeExecutor"}),
       SpawnStep("create_mailbox", "MergePlanner", {}),
       SpawnStep("spawn_actor", "MergePlanner", {"MergeSplitDownloader", "MergePlanner"}),
       SpawnStep("create_mailbox", "SourceActor", {}),
       SpawnStep("spawn_actor", "Publisher", {"MergePlanner", "GarbageCollector", "SourceActor"}),
       SpawnStep("spawn_actor", "Sequencer", {"Publisher"}),
       SpawnStep("spawn_actor", "Uploader", {"Sequencer"}),
       SpawnStep("spawn_actor", "Packager", {"Uploader"}),
       SpawnStep("spawn_actor", "Indexer", {"Packager"}),
       SpawnStep("try", "index_metadata", {}),
       SpawnStep("try", "load_source", {}),
       SpawnStep("spawn_actor", "SourceActor", {"Indexer", "SourceActor"}) >>

\* The steps of spawn_pipeline, in the order of the code.
SpawnSequence ==
    << SpawnStep("try", "create_with_local_store", {}),
       SpawnStep("try", "list_splits", {}),
       SpawnStep("try", "remove_dangling_splits", {}),
       SpawnStep("create_mailbox", "MergePlanner", {}),
       SpawnStep("spawn_actor", "GarbageCollector", {}),
       SpawnStep("spawn_actor", "MergePublisher", {"MergePlanner", "GarbageCollector"}),
       SpawnStep("spawn_actor", "MergeSequencer", {"MergePublisher"}),
       SpawnStep("spawn_actor", "MergeUploader", {"MergeSequencer"}),
       SpawnStep("try", "tag_fields", {}),
       SpawnStep("spawn_actor", "MergePackager", {"MergeUploader"}),
       SpawnStep("spawn_actor", "MergeExecutor", {"MergePackager"}),
       SpawnStep("spawn_actor", "MergeSplitDownloader", {"MergeExecutor"}),
       SpawnStep("spawn_actor", "MergePlanner", {"MergeSplitDownloader", "MergePlanner"}),
       SpawnStep("create_mailbox", "SourceActor", {}),
       SpawnStep("spawn_actor", "Publisher", {"MergePlanner", "GarbageCollector", "SourceActor"}),
       SpawnStep("spawn_actor", "Sequencer", {"Publisher"}),
       SpawnStep("spawn_actor", "Uploader", {"Sequencer"}),
       SpawnStep("spawn_actor", "Packager", {"Uploader"}),
       SpawnStep("spawn_actor", "Indexer", {"Packager"}),
       SpawnStep("try", "index_metadata", {}),
       SpawnStep("try", "load_source", {}),
       SpawnStep("spawn_actor", "SourceActor", {"Indexer", "SourceActor"}) >>

\* The steps at which an attempt can meet outcome: any call that can fail
\* for an error, a call of the metastore for IndexDoesNotExist.
FallibleSteps(outcome) ==
    CASE outcome = "OtherError" ->
             {SpawnSequence[i].actor : i \in {j \in DOMAIN SpawnSequence :
                                                 SpawnSequence[j].op = "try"}}
      [] outcome = "IndexDoesNotExist" -> {"list_splits", "index_metadata"}
      [] OTHER -> {"None"}

\* The children with every actor on the kill switch of the supervisor but
\* the source, which is left on a kill switch of its own.
spawn_children_source_on_own_switch(fails_at, kill_switch_id) ==
    LET taken_steps == IF fails_at = "None" THEN Len(SpawnSequence)
                ELSE (CHOOSE i \in DOMAIN SpawnSequence :
                          SpawnSequence[i] = SpawnStep("try", fails_at, {})) - 1
    IN  [i \in 1..taken_steps |->
            [op |-> SpawnSequence[i].op, actor |-> SpawnSequence[i].actor,
             mailboxes |-> SpawnSequence[i].mailboxes,
             kill_switch |-> IF SpawnSequence[i].op # "spawn_actor" THEN None
                             ELSE IF SpawnSequence[i].actor = "SourceActor" THEN Some(0)
                             ELSE Some(kill_switch_id)]]

\* What spawn_pipeline creates before the step fails_at returns its error
\* ("None": no step does): the steps taken, every ctx.spawn_actor with
\* set_kill_switch(self.kill_switch.clone()).
spawn_children(fails_at, kill_switch_id) ==
    LET taken_steps == IF fails_at = "None" THEN Len(SpawnSequence)
                ELSE (CHOOSE i \in DOMAIN SpawnSequence :
                          SpawnSequence[i] = SpawnStep("try", fails_at, {})) - 1
    IN  [i \in 1..taken_steps |->
            [op |-> SpawnSequence[i].op, actor |-> SpawnSequence[i].actor,
             mailboxes |-> SpawnSequence[i].mailboxes,
             kill_switch |-> IF SpawnSequence[i].op = "spawn_actor"
                             THEN Some(kill_switch_id) ELSE None]]

\* spawn_pipeline incrementing the generation before anything can fail.
spawn_pipeline_generation_first(outcome, st) ==
    LET attempted ==
            [st EXCEPT !.statistics.num_spawn_attempts = @ + 1,
                       !.statistics.generation = @ + 1,
                       !.kill_switch = [id |-> @.id + 1, dead |-> FALSE]]
    IN  IF outcome # "Ok" THEN [attempted EXCEPT !.result = outcome]
        ELSE [attempted EXCEPT
                 !.previous = attempted.statistics,
                 !.handles = Some([generation |-> attempted.statistics.generation,
                                   kill_switch |-> attempted.kill_switch.id,
                                   counters |-> ActorCountersDefault]),
                 !.result = "Ok"]

\* spawn_pipeline not saving the statistics of the generations before.
spawn_pipeline_forget_previous(outcome, st) ==
    LET attempted ==
            [st EXCEPT !.statistics.num_spawn_attempts = @ + 1,
                       !.kill_switch = [id |-> @.id + 1, dead |-> FALSE]]
    IN  IF outcome # "Ok" THEN [attempted EXCEPT !.result = outcome]
        ELSE [attempted EXCEPT
                 !.statistics.generation = @ + 1,
                 !.handles = Some([generation |-> attempted.statistics.generation + 1,
                                   kill_switch |-> attempted.kill_switch.id,
                                   counters |-> ActorCountersDefault]),
                 !.result = "Ok"]

\* IndexingPipeline::spawn_pipeline on the state st = [statistics, previous,
\* handles, kill_switch, scheduled, result], the attempt meeting outcome.
spawn_pipeline(outcome, st) ==
    LET attempted ==
            [st EXCEPT !.statistics.num_spawn_attempts = @ + 1,
                       !.kill_switch = [id |-> @.id + 1, dead |-> FALSE]]
    IN  IF outcome # "Ok" THEN [attempted EXCEPT !.result = outcome]
        ELSE [attempted EXCEPT
                 !.previous = attempted.statistics,
                 !.statistics.generation = @ + 1,
                 !.handles = Some([generation |-> attempted.statistics.generation + 1,
                                   kill_switch |-> attempted.kill_switch.id,
                                   counters |-> ActorCountersDefault]),
                 !.result = "Ok"]

\* The handles terminate calls kill() on and joins.
TerminatedHandles ==
    {"SourceActor", "Indexer", "Packager", "Uploader", "Publisher", "GarbageCollector",
     "MergePlanner", "MergeSplitDownloader", "MergeExecutor", "MergePackager",
     "MergeUploader", "MergePublisher"}

\* IndexingPipeline::terminate: the kill switch is killed, the handles are
\* taken and, when there were handles, kill() is awaited on those of
\* TerminatedHandles.
terminate(st) ==
    [st EXCEPT !.kill_switch.dead = TRUE,
               !.handles = None,
               !.killed = IF IsSome(st.handles) THEN TerminatedHandles ELSE {}]

\* Handler<Spawn> retrying after MetastoreError::IndexDoesNotExist as after
\* any other error.
handle_spawn_retry_always(spawn, outcome, st) ==
    IF IsSome(st.handles) THEN [st EXCEPT !.result = "Ok"]
    ELSE LET st0 == [st EXCEPT !.previous.num_spawn_attempts = 1 + spawn.retry_count]
             st1 == spawn_pipeline(outcome, st0)
         IN  IF st1.result = "Ok" THEN st1
             ELSE [st1 EXCEPT
                      !.scheduled = @ \cup
                          {SpawnMsg(spawn.retry_count + 1,
                                    wait_duration_before_retry(Usize(spawn.retry_count),
                                                               overflow_checks))},
                      !.result = "Ok"]

\* Handler<Spawn> giving up after an error instead of scheduling a retry.
handle_spawn_no_retry(spawn, outcome, st) ==
    IF IsSome(st.handles) THEN [st EXCEPT !.result = "Ok"]
    ELSE LET st0 == [st EXCEPT !.previous.num_spawn_attempts = 1 + spawn.retry_count]
             st1 == spawn_pipeline(outcome, st0)
         IN  IF st1.result = "Ok" THEN st1
             ELSE IF outcome = "IndexDoesNotExist" THEN [st1 EXCEPT !.result = "Success"]
             ELSE [st1 EXCEPT !.result = "Ok"]

\* Handler<Spawn> attempting a spawn whether there are handles or not.
handle_spawn_without_guard(spawn, outcome, st) ==
    LET st0 == [st EXCEPT !.previous.num_spawn_attempts = 1 + spawn.retry_count]
        st1 == spawn_pipeline(outcome, st0)
    IN  IF st1.result = "Ok" THEN st1
        ELSE IF outcome = "IndexDoesNotExist" THEN [st1 EXCEPT !.result = "Success"]
        ELSE [st1 EXCEPT
                 !.scheduled = @ \cup
                     {SpawnMsg(spawn.retry_count + 1,
                               wait_duration_before_retry(Usize(spawn.retry_count),
                                                          overflow_checks))},
                 !.result = "Ok"]

\* Handler<Spawn>::handle.  The result is "Ok", or the exit status of
\* Err(ActorExitStatus::Success).
handle_spawn(spawn, outcome, st) ==
    IF IsSome(st.handles) THEN [st EXCEPT !.result = "Ok"]
    ELSE LET st0 == [st EXCEPT !.previous.num_spawn_attempts = 1 + spawn.retry_count]
             st1 == spawn_pipeline(outcome, st0)
         IN  IF st1.result = "Ok" THEN st1
             ELSE IF outcome = "IndexDoesNotExist" THEN [st1 EXCEPT !.result = "Success"]
             ELSE [st1 EXCEPT
                      !.scheduled = @ \cup
                          {SpawnMsg(spawn.retry_count + 1,
                                    wait_duration_before_retry(Usize(spawn.retry_count),
                                                               overflow_checks))},
                      !.result = "Ok"]

\* IndexingStatistics::add_actor_counters, set_generation and
\* set_num_spawn_attempts.
add_actor_counters(stats, indexer_counters, uploader_counters, publisher_counters) ==
    [stats EXCEPT !.num_docs = @ + indexer_counters,
                  !.num_uploaded_splits = @ + uploader_counters,
                  !.num_published_splits = @ + publisher_counters]
set_generation(stats, generation) == [stats EXCEPT !.generation = generation]
set_num_spawn_attempts(stats, n) == [stats EXCEPT !.num_spawn_attempts = n]

\* Handler<Observe>::handle.
handle_observe(st) ==
    LET observed ==
            IF IsSome(st.handles)
            THEN [st EXCEPT !.statistics =
                     set_num_spawn_attempts(
                         set_generation(
                             add_actor_counters(st.previous,
                                                Unwrap(st.handles).counters.indexer,
                                                Unwrap(st.handles).counters.uploader,
                                                Unwrap(st.handles).counters.publisher),
                             st.statistics.generation),
                         st.statistics.num_spawn_attempts)]
            ELSE st
    IN  [observed EXCEPT !.scheduled = @ \cup {ObserveMsg(Duration_from_secs(1))},
                         !.result = "Ok"]

\* Handler<Supervise>::handle.  healths is read only when there are handles.
handle_supervise(healths, st) ==
    LET health == healthcheck(healths)
        tick == {SuperviseMsg(HEARTBEAT)}
    IN  IF ~IsSome(st.handles)
        THEN [st EXCEPT !.scheduled = @ \cup tick, !.result = "Ok"]
        ELSE CASE health = "Healthy" ->
                    [st EXCEPT !.scheduled = @ \cup tick, !.result = "Ok"]
               [] health = "FailureOrUnhealthy" ->
                    [terminate(st) EXCEPT
                        !.scheduled = @ \cup {SpawnMsg(0, HEARTBEAT)} \cup tick,
                        !.result = "Ok"]
               [] health = "Success" ->
                    [st EXCEPT !.result = "Success"]

PipelineRunning == pipeline_exit_status = None

\* The supervisor runs and handles no message.
PipelineIdle == PipelineRunning /\ ~IsSome(pipeline_suspended)

\* The state a handler of the supervisor starts from.
PipelineCurrent ==
    [statistics |-> statistics, previous |-> previous_generations_statistics,
     handles |-> handles, kill_switch |-> kill_switch, scheduled |-> {}, killed |-> {},
     result |-> "Ok"]

\* The state a handler of the supervisor starts from, and the self messages
\* that are scheduled then.
PipelineBefore == [state |-> PipelineCurrent, pending |-> pending]

\* Actor::initialize handles Spawn::default(), Observe and Supervise, in
\* that order, before the supervisor reads its mailbox.
InitializeMsg ==
    CASE pc = "initialize_spawn" -> SpawnMsg(0, Duration_from_secs(0))
      [] pc = "initialize_observe" -> ObserveMsg(Duration_from_secs(0))
      [] OTHER -> SuperviseMsg(Duration_from_secs(0))

\* The messages the supervisor can handle next: the one initialize has
\* reached, or a scheduled one (timers fire in any order).
MessagesAtHand == IF pc = "running" THEN pending ELSE {InitializeMsg}

NextPc ==
    CASE pc = "initialize_spawn" -> "initialize_observe"
      [] pc = "initialize_observe" -> "initialize_supervise"
      [] OTHER -> "running"

\* The self messages of msgs in the order the handlers schedule them: a
\* Spawn before the tick of the handler.
ScheduleOrder(msgs) ==
    LET spawns == {x \in msgs : x.msg = "Spawn"}
        one(some) == IF some = {} THEN <<>> ELSE <<CHOOSE x \in some : TRUE>>
    IN  one(spawns) \o one(msgs \ spawns)

\* No actor of the join of Handler<Observe> has answered.
NoneObserved == [actor \in DOMAIN ActorCountersDefault |-> None]

\* The supervisor state of st is written.
PipelineState(st) ==
    /\ statistics' = st.statistics
    /\ previous_generations_statistics' = st.previous
    /\ handles' = st.handles
    /\ kill_switch' = st.kill_switch

\* The handler of m awaits at: the supervisor keeps the message, what the
\* handler has met, the self messages st has it schedule from there on, the
\* counters of the actors it holds in locals, what the actors it observes
\* have answered, and the state it started from.
PipelineSuspend(at, m, outcome, healths, st, actor_counters, observed, before) ==
    /\ pipeline_suspended' =
           Some([at |-> at, m |-> m, outcome |-> outcome, healths |-> healths,
                 to_schedule |-> ScheduleOrder(st.scheduled), scheduled |-> st.scheduled,
                 killed |-> st.killed, result |-> st.result,
                 counters |-> actor_counters, observed |-> observed, before |-> before])
    /\ pipeline_last' = [msg |-> "Await", retry_count |-> m.retry_count, outcome |-> "None",
                         healths |-> None, scheduled |-> {}, killed |-> {}, result |-> "Ok"]
    /\ pc' = pc
    /\ pipeline_exit_status' = pipeline_exit_status

\* The handler of m returns, the state st being written already.  A handler
\* returning Err(ActorExitStatus::Success) makes the supervisor exit with
\* Success.
PipelineReturn(m, outcome, healths, st) ==
    /\ pc' = NextPc
    /\ pipeline_exit_status' = IF st.result = "Ok" THEN None ELSE Some(st.result)
    /\ pipeline_last' = [msg |-> m.msg, retry_count |-> m.retry_count, outcome |-> outcome,
                         healths |-> healths, scheduled |-> st.scheduled,
                         killed |-> st.killed, result |-> st.result]
    /\ pipeline_suspended' = None

\* The handler of m leaves the state st: it returns when st has it schedule
\* nothing, and awaits ctx.schedule_self_msg when it has.
PipelineCommit(m, outcome, healths, st, before) ==
    /\ PipelineState(st)
    /\ pending' = pending \ {m}
    /\ IF st.scheduled = {}
       THEN PipelineReturn(m, outcome, healths, st)
       ELSE PipelineSuspend("schedule_self_msg", m, outcome, healths, st,
                            ActorCountersDefault, NoneObserved, before)

\* The calls of spawn_pipeline that are awaited.
SpawnAwaits == {"list_splits", "remove_dangling_splits", "index_metadata", "load_source"}

\* The step of spawn_pipeline that is the call of name call.
StepOf(call) ==
    CHOOSE i \in DOMAIN SpawnSequence : SpawnSequence[i] = SpawnStep("try", call, {})

\* The awaits of spawn_pipeline after the step from.
AwaitsAfter(from) ==
    {i \in DOMAIN SpawnSequence : /\ i > from
                                  /\ SpawnSequence[i].op = "try"
                                  /\ SpawnSequence[i].actor \in SpawnAwaits}

\* The await spawn_pipeline reaches next when it goes on from the step from
\* and no call fails: "None" when it reaches its end.
NextAwait(from) ==
    IF AwaitsAfter(from) = {} THEN "None"
    ELSE SpawnSequence[CHOOSE i \in AwaitsAfter(from) :
                           \A j \in AwaitsAfter(from) : i <= j].actor

\* The calls that can return an error when spawn_pipeline goes on from the
\* step from: the awaited call of that step, and the calls made before the
\* next await.
CallsFrom(from) ==
    {SpawnSequence[i].actor :
        i \in {j \in DOMAIN SpawnSequence :
                  /\ SpawnSequence[j].op = "try"
                  /\ j >= from
                  /\ \A k \in AwaitsAfter(from) : j < k}}

\* spawn_pipeline goes on from the step from (0: from its start) in the
\* handler of m: the call fails_at returns the error outcome, or no call
\* does and the next await, or the end, is reached.  On an error, and at
\* the end, Handler<Spawn> leaves the state handle_spawn says.
SpawnPipelineGoesOn(m, from, outcome, fails_at, actor_counters, before) ==
    /\ \/ outcome = "Ok" /\ fails_at = "None"
       \/ /\ outcome # "Ok"
          /\ fails_at \in FallibleSteps(outcome) \cap CallsFrom(from)
    /\ outcome = "OtherError" =>
           spawned'.attempts - spawned.successes <= MaxSpawnFailures
    /\ IF fails_at = "None" /\ NextAwait(from) # "None"
       THEN /\ PipelineState(handle_spawn(m, "OtherError", before.state))
            /\ pending' = pending \ {m}
            /\ PipelineSuspend(NextAwait(from), m, "None", None, PipelineCurrent,
                               actor_counters, NoneObserved, before)
            /\ children' = spawn_children(NextAwait(from), kill_switch'.id)
       ELSE \E st \in {handle_spawn(m, outcome, before.state)} :
                /\ PipelineCommit(m, outcome, None,
                                  IF IsSome(st.handles)
                                  THEN [st EXCEPT !.handles =
                                           Some([Unwrap(st.handles) EXCEPT
                                                    !.counters = actor_counters])]
                                  ELSE st,
                                  before)
                /\ children' = spawn_children(fails_at, st.kill_switch.id)

\* Handler<Spawn>, as far as its first await or to its end.  outcome is
\* what create_with_local_store meets, when an attempt is made.
HandleSpawn(m, outcome) ==
    /\ PipelineIdle
    /\ m \in MessagesAtHand
    /\ m.msg = "Spawn"
    /\ IF IsSome(handles)
       THEN /\ outcome = "None"
            /\ PipelineCommit(m, outcome, None, handle_spawn(m, outcome, PipelineCurrent),
                              PipelineBefore)
            /\ UNCHANGED <<spawned, children>>
       ELSE /\ spawned' = [spawned EXCEPT !.attempts = @ + 1]
            /\ \E fails_at \in {"None"} \cup CallsFrom(0) :
                   SpawnPipelineGoesOn(m, 0, outcome, fails_at, ActorCountersDefault,
                                       PipelineBefore)
    /\ UNCHANGED <<progressed, indexer_vars, wait_vars, merge_vars>>

\* An awaited call of spawn_pipeline returns: outcome, from the call
\* itself or from one that is made before the next await.
SpawnAwaitReturns(at, outcome) ==
    /\ PipelineRunning
    /\ IsSome(pipeline_suspended)
    /\ Unwrap(pipeline_suspended).m.msg = "Spawn"
    /\ Unwrap(pipeline_suspended).at = at
    /\ spawned' = [spawned EXCEPT !.successes =
                      @ + IF outcome = "Ok" /\ NextAwait(StepOf(at)) = "None" THEN 1 ELSE 0]
    /\ \E fails_at \in {"None"} \cup CallsFrom(StepOf(at)) :
           SpawnPipelineGoesOn(Unwrap(pipeline_suspended).m, StepOf(at), outcome, fails_at,
                               Unwrap(pipeline_suspended).counters,
                               Unwrap(pipeline_suspended).before)
    /\ UNCHANGED <<progressed, indexer_vars, wait_vars, merge_vars>>

\* metastore.list_splits(..).await returns.
AwaitListSplits == \E outcome \in SpawnOutcomes : SpawnAwaitReturns("list_splits", outcome)

\* split_store.remove_dangling_splits(..).await returns.
AwaitRemoveDanglingSplits ==
    \E outcome \in SpawnOutcomes : SpawnAwaitReturns("remove_dangling_splits", outcome)

\* metastore.index_metadata(..).await returns.
AwaitIndexMetadata ==
    \E outcome \in SpawnOutcomes : SpawnAwaitReturns("index_metadata", outcome)

\* load_source(..).await returns.
AwaitLoadSource == \E outcome \in SpawnOutcomes : SpawnAwaitReturns("load_source", outcome)

\* Handler<Observe>, as far as its first await: the join of the three
\* observations when there are handles, ctx.schedule_self_msg when not.
HandleObserve(m) ==
    /\ PipelineIdle
    /\ m \in MessagesAtHand
    /\ m.msg = "Observe"
    /\ IF IsSome(handles)
       THEN /\ PipelineSuspend("observe", m, "None", None, PipelineCurrent,
                               ActorCountersDefault, NoneObserved, PipelineBefore)
            /\ pending' = pending \ {m}
            /\ UNCHANGED <<statistics, previous_generations_statistics, handles,
                           kill_switch>>
       ELSE PipelineCommit(m, "None", None, handle_observe(PipelineCurrent), PipelineBefore)
    /\ UNCHANGED <<spawned, children, progressed, indexer_vars, wait_vars, merge_vars>>

\* One of handles.indexer.observe(), handles.uploader.observe() and
\* handles.publisher.observe() answers with the counter of its actor.  When
\* the three have, the join returns and the statistics are written.
AwaitObserve(actor) ==
    /\ PipelineRunning
    /\ IsSome(pipeline_suspended)
    /\ Unwrap(pipeline_suspended).at = "observe"
    /\ ~IsSome(Unwrap(pipeline_suspended).observed[actor])
    /\ LET h == Unwrap(pipeline_suspended)
           observed == [h.observed EXCEPT ![actor] = Some(Unwrap(handles).counters[actor])]
           st == handle_observe(
                     [PipelineCurrent EXCEPT
                         !.handles = Some([Unwrap(handles) EXCEPT
                                              !.counters = [a \in DOMAIN observed |->
                                                               IF IsSome(observed[a])
                                                               THEN Unwrap(observed[a])
                                                               ELSE 0]])])
       IN  IF \A a \in DOMAIN observed : IsSome(observed[a])
           THEN /\ statistics' = st.statistics
                /\ previous_generations_statistics' = st.previous
                /\ kill_switch' = st.kill_switch
                /\ pipeline_suspended' =
                       Some([h EXCEPT !.at = "schedule_self_msg",
                                      !.observed = observed,
                                      !.to_schedule = ScheduleOrder(st.scheduled),
                                      !.scheduled = st.scheduled,
                                      !.result = st.result])
           ELSE /\ pipeline_suspended' = Some([h EXCEPT !.observed = observed])
                /\ UNCHANGED <<statistics, previous_generations_statistics, kill_switch>>
    /\ UNCHANGED <<handles, pending, pc, pipeline_exit_status, pipeline_last, spawned,
                   children, progressed, indexer_vars, wait_vars, merge_vars>>

\* Handler<Supervise>, as far as its first await or to its end: the kill
\* switch is killed and the handles are taken before terminate awaits the
\* kill() of the handles.  healths is what the children answer, when there
\* are children.
HandleSupervise(m, healths) ==
    /\ PipelineIdle
    /\ m \in MessagesAtHand
    /\ m.msg = "Supervise"
    /\ healths \in IF ~IsSome(handles) THEN {None}
                   ELSE {Some(h) : h \in {c \in ChildrenHealths :
                                             c.failure_or_unhealthy # 0 =>
                                                 spawned.successes < MaxGenerations}}
    /\ \E st \in {handle_supervise(IF IsSome(healths) THEN Unwrap(healths)
                                   ELSE [healthy |-> 0, failure_or_unhealthy |-> 0,
                                         success |-> 0],
                                   PipelineCurrent)} :
           IF st.killed = {}
           THEN PipelineCommit(m, "None", healths, st, PipelineBefore)
           ELSE /\ PipelineState(st)
                /\ pending' = pending \ {m}
                /\ PipelineSuspend("terminate", m, "None", healths, st,
                                   ActorCountersDefault, NoneObserved, PipelineBefore)
    /\ UNCHANGED <<spawned, children, progressed, indexer_vars, wait_vars, merge_vars>>

\* The join of the kill() of the handles, in terminate, returns.
AwaitTerminate ==
    /\ PipelineRunning
    /\ IsSome(pipeline_suspended)
    /\ Unwrap(pipeline_suspended).at = "terminate"
    /\ pipeline_suspended' = Some([Unwrap(pipeline_suspended) EXCEPT !.at = "schedule_self_msg"])
    /\ UNCHANGED <<statistics, previous_generations_statistics, handles, kill_switch,
                   pending, pc, pipeline_exit_status, pipeline_last, spawned, children,
                   progressed, indexer_vars, wait_vars, merge_vars>>

\* ctx.schedule_self_msg(..).await of a message of kind msg returns in the
\* handler of a message of kind handler: the message is scheduled, and the
\* handler goes on to its next await, or returns.
ScheduleSelfMsg(handler, msg) ==
    /\ PipelineRunning
    /\ IsSome(pipeline_suspended)
    /\ Unwrap(pipeline_suspended).at = "schedule_self_msg"
    /\ Unwrap(pipeline_suspended).m.msg = handler
    /\ Head(Unwrap(pipeline_suspended).to_schedule).msg = msg
    /\ LET h == Unwrap(pipeline_suspended)
       IN  /\ pending' = pending \cup {Head(h.to_schedule)}
           /\ IF Tail(h.to_schedule) = <<>>
              THEN PipelineReturn(h.m, h.outcome, h.healths, h)
              ELSE /\ pipeline_suspended' = Some([h EXCEPT !.to_schedule = Tail(@)])
                   /\ UNCHANGED <<pc, pipeline_exit_status, pipeline_last>>
    /\ UNCHANGED <<statistics, previous_generations_statistics, handles, kill_switch,
                   spawned, children, progressed, indexer_vars, wait_vars, merge_vars>>

\* The retry of a failed attempt is scheduled, in Handler<Spawn>.
AwaitScheduleRetry == ScheduleSelfMsg("Spawn", "Spawn")

\* The next Observe is scheduled, in Handler<Observe>.
AwaitScheduleObserve == ScheduleSelfMsg("Observe", "Observe")

\* The Spawn of the next generation is scheduled, in Handler<Supervise>.
AwaitScheduleRespawn == ScheduleSelfMsg("Supervise", "Spawn")

\* The next Supervise is scheduled, in Handler<Supervise>.
AwaitScheduleSupervise == ScheduleSelfMsg("Supervise", "Supervise")

\* The actor of supervisables() whose counter is observed as actor.
ObservedActor(actor) ==
    CASE actor = "indexer" -> "Indexer"
      [] actor = "uploader" -> "Uploader"
      [] actor = "publisher" -> "Publisher"

\* The indexer, the uploader or the publisher increments the counter the
\* supervisor observes: an actor of the generation, or one that
\* spawn_pipeline has spawned and holds the handle of in a local.
ActorProgress(actor) ==
    /\ PipelineRunning
    /\ progressed < MaxActorProgress
    /\ IF IsSome(handles)
       THEN /\ handles' = Some([Unwrap(handles) EXCEPT !.counters[actor] = @ + 1])
            /\ pipeline_suspended' = pipeline_suspended
       ELSE /\ IsSome(pipeline_suspended)
            /\ Unwrap(pipeline_suspended).m.msg = "Spawn"
            /\ Unwrap(pipeline_suspended).at \in SpawnAwaits
            /\ \E i \in DOMAIN children : /\ children[i].op = "spawn_actor"
                                          /\ children[i].actor = ObservedActor(actor)
            /\ pipeline_suspended' =
                   Some([Unwrap(pipeline_suspended) EXCEPT !.counters[actor] = @ + 1])
            /\ handles' = handles
    /\ progressed' = progressed + 1
    /\ UNCHANGED <<statistics, previous_generations_statistics, kill_switch, pending, pc,
                   pipeline_exit_status, pipeline_last, spawned, children,
                   indexer_vars, wait_vars, merge_vars>>

DeliverSpawn ==
    \E m \in MessagesAtHand, outcome \in SpawnOutcomes \cup {"None"} : HandleSpawn(m, outcome)

\* An await of the handler the supervisor runs returns.
PipelineResume ==
    \/ AwaitListSplits
    \/ AwaitRemoveDanglingSplits
    \/ AwaitIndexMetadata
    \/ AwaitLoadSource
    \/ \E actor \in DOMAIN ActorCountersDefault : AwaitObserve(actor)
    \/ AwaitTerminate
    \/ AwaitScheduleRetry
    \/ AwaitScheduleObserve
    \/ AwaitScheduleRespawn
    \/ AwaitScheduleSupervise

PipelineNext ==
    \/ DeliverSpawn
    \/ \E m \in MessagesAtHand : HandleObserve(m)
    \/ \E m \in MessagesAtHand, healths \in {None} \cup {Some(h) : h \in ChildrenHealths} :
           HandleSupervise(m, healths)
    \/ AwaitListSplits
    \/ AwaitRemoveDanglingSplits
    \/ AwaitIndexMetadata
    \/ AwaitLoadSource
    \/ \E actor \in DOMAIN ActorCountersDefault : AwaitObserve(actor)
    \/ AwaitTerminate
    \/ AwaitScheduleRetry
    \/ AwaitScheduleObserve
    \/ AwaitScheduleRespawn
    \/ AwaitScheduleSupervise

PipelineSpec == Init /\ [][PipelineNext]_vars

\* The handlers initialize has not run yet.
Initialize == pc # "running" /\ PipelineNext

\* initialize runs its three handlers one after the other; the runtime polls
\* the handler that awaits, whose awaits return; and a scheduled Spawn is
\* queued in the mailbox when its delay has elapsed, and handled once the
\* messages queued before it are: however often the supervisor is busy with
\* another handler.
PipelineLiveSpec ==
    PipelineSpec /\ WF_vars(Initialize) /\ WF_vars(PipelineResume) /\ SF_vars(DeliverSpawn)

\* What the children answer in the runs that follow the statistics: all
\* Healthy, all Success, or one of them FailureOrUnhealthy.
ObservedHealths ==
    {h \in ChildrenHealths : \/ h.healthy = NumSupervisables
                              \/ h.success = NumSupervisables
                              \/ (h.healthy = NumSupervisables - 1 /\ h.failure_or_unhealthy = 1)}

\* The supervisor beside the indexer, the uploader and the publisher of its
\* generations, whose counters it observes.
StatisticsNext ==
    \/ DeliverSpawn
    \/ \E m \in MessagesAtHand : HandleObserve(m)
    \/ \E m \in MessagesAtHand, healths \in {None} \cup {Some(h) : h \in ObservedHealths} :
           HandleSupervise(m, healths)
    \/ AwaitListSplits
    \/ AwaitRemoveDanglingSplits
    \/ AwaitIndexMetadata
    \/ AwaitLoadSource
    \/ \E actor \in DOMAIN ActorCountersDefault : AwaitObserve(actor)
    \/ AwaitTerminate
    \/ AwaitScheduleRetry
    \/ AwaitScheduleObserve
    \/ AwaitScheduleRespawn
    \/ AwaitScheduleSupervise
    \/ \E actor \in DOMAIN ActorCountersDefault : ActorProgress(actor)

StatisticsSpec == Init /\ [][StatisticsNext]_vars

\* ------------------------------------------------------- test_wait_duration

\* The retry counts test_wait_duration is run with: small ones, and those
\* around the bounds of the types.
RetryCounts ==
    [top : {0, 1},
     hi : {0, 1, 2^16 - 1},
     lo : (0..MaxRetryCount) \cup {30, 31, 2^16 - 2, 2^16 - 1}]

WaitInit ==
    /\ IndexerNew
    /\ IndexingPipelineNew
    /\ wait_retry_count \in {Some(n) : n \in RetryCounts}
    /\ overflow_checks \in BOOLEAN
    /\ wait_duration = None
    /\ MergePolicyNotRun

test_wait_duration ==
    /\ IsSome(wait_retry_count)
    /\ wait_duration = None
    /\ wait_duration' =
           Some(wait_duration_before_retry(Unwrap(wait_retry_count), overflow_checks))
    /\ UNCHANGED <<wait_retry_count, overflow_checks, indexer_vars, pipeline_vars,
                   merge_vars>>

WaitNext == test_wait_duration

WaitSpec == WaitInit /\ [][WaitNext]_vars

\* ------------------------------------------------------------- merge policy

\* StableMultitenantWithTimestampMergePolicy::default().
DefaultMinLevelNumDocs == 100000
DefaultMergeFactor == 10
DefaultMaxMergeFactor == 12
DefaultSplitNumDocsTarget == 10000000

MergePolicyDefault ==
    [min_level_num_docs |-> DefaultMinLevelNumDocs,
     merge_enabled |-> TRUE,
     merge_factor |-> DefaultMergeFactor,
     max_merge_factor |-> DefaultMaxMergeFactor,
     split_num_docs_target |-> DefaultSplitNumDocsTarget]

\* SplitMetadata, as far as the merge policy reads it.  time_range is None
\* or Some of an inclusive range.
SplitMetadata(split_id, num_docs, time_range) ==
    [split_id |-> split_id, num_docs |-> num_docs, time_range |-> time_range]

RangeInclusive(start, end) == [start |-> start, end |-> end]

\* items[start..end], for 0-based start and end.
Slice(items, start, end) == SubSeq(items, start + 1, end)

\* items after items.drain(start..end).
Drain(items, start, end) == SubSeq(items, 1, start) \o SubSeq(items, end + 1, Len(items))

RECURSIVE SumNumDocsOf(_)
SumNumDocsOf(splits) ==
    IF splits = <<>> THEN 0 ELSE Head(splits).num_docs + SumNumDocsOf(Tail(splits))

\* remove_matching_items: the items that match, and the others left in items,
\* both in their order.  The predicate is a function of the items.
remove_matching_items(items, predicate) ==
    [matching_items |-> SelectSeq(items, LAMBDA item : predicate[item]),
     items |-> SelectSeq(items, LAMBDA item : ~predicate[item])]

\* is_mature_for_merge taking a split of exactly split_num_docs_target
\* documents for immature.
is_mature_for_merge_above_target(policy, split) ==
    IF ~policy.merge_enabled THEN TRUE
    ELSE split.num_docs > policy.split_num_docs_target

\* StableMultitenantWithTimestampMergePolicy::is_mature_for_merge.
is_mature_for_merge(policy, split) ==
    IF ~policy.merge_enabled THEN TRUE
    ELSE split.num_docs >= policy.split_num_docs_target

\* The order of the keys (time_end, split.num_docs) of sort_by_key, time_end
\* being None or Some(Reverse(end of the time range)): None first, then the
\* later end first, then the fewer documents first.
SortKeyLess(a, b) ==
    IF ~IsSome(a.time_range) /\ IsSome(b.time_range) THEN TRUE
    ELSE IF IsSome(a.time_range) /\ ~IsSome(b.time_range) THEN FALSE
    ELSE IF IsSome(a.time_range) /\ Unwrap(a.time_range).end # Unwrap(b.time_range).end
    THEN Unwrap(a.time_range).end > Unwrap(b.time_range).end
    ELSE a.num_docs < b.num_docs

\* split put into the sorted sequence after the splits whose key is not
\* greater than its key.
RECURSIVE SortedInsert(_, _)
SortedInsert(sorted, split) ==
    IF sorted = <<>> THEN <<split>>
    ELSE IF SortKeyLess(split, Head(sorted)) THEN <<split>> \o sorted
    ELSE <<Head(sorted)>> \o SortedInsert(Tail(sorted), split)

\* splits.sort_by_key: a stable sort.
RECURSIVE sort_by_key(_)
sort_by_key(splits) ==
    IF splits = <<>> THEN <<>>
    ELSE SortedInsert(sort_by_key(SubSeq(splits, 1, Len(splits) - 1)), splits[Len(splits)])

Range(start, end) == [start |-> start, end |-> end]

\* The loop of build_split_levels from the split split_ord on.
RECURSIVE BuildSplitLevelsFrom(_, _, _, _, _)
BuildSplitLevelsFrom(splits, split_ord, current_level_start_ord, current_level_max_docs, split_levels) ==
    IF split_ord = Len(splits)
    THEN Append(split_levels, Range(current_level_start_ord, Len(splits)))
    ELSE IF splits[split_ord + 1].num_docs >= current_level_max_docs
    THEN BuildSplitLevelsFrom(splits, split_ord + 1, split_ord,
                              3 * splits[split_ord + 1].num_docs,
                              Append(split_levels, Range(current_level_start_ord, split_ord)))
    ELSE BuildSplitLevelsFrom(splits, split_ord + 1, current_level_start_ord,
                              current_level_max_docs, split_levels)

\* The assertion of build_split_levels.
BuildSplitLevelsAssertion(policy, splits) ==
    \A i \in DOMAIN splits : splits[i].num_docs < policy.split_num_docs_target

\* build_split_levels with three times the documents of the first split as
\* the first cap, whatever min_level_num_docs.
build_split_levels_without_min_level(policy, splits) ==
    IF splits = <<>> THEN <<>>
    ELSE BuildSplitLevelsFrom(splits, 0, 0, splits[1].num_docs * 3, <<>>)

\* StableMultitenantWithTimestampMergePolicy::build_split_levels, where its
\* assertion holds: the levels as 0-based ranges start..end.
build_split_levels(policy, splits) ==
    IF splits = <<>> THEN <<>>
    ELSE BuildSplitLevelsFrom(
             splits, 0, 0,
             IF splits[1].num_docs * 3 >= policy.min_level_num_docs
             THEN splits[1].num_docs * 3 ELSE policy.min_level_num_docs,
             <<>>)

\* merge_candidate_size asking for more than merge_factor splits.
merge_candidate_size_above_merge_factor(policy, splits) ==
    IF Len(splits) <= 1 THEN "TooSmall"
    ELSE IF Len(splits) >= policy.max_merge_factor THEN "OneMoreSplitWouldBeTooBig"
    ELSE IF SumNumDocsOf(splits) >= policy.split_num_docs_target
    THEN "OneMoreSplitWouldBeTooBig"
    ELSE IF Len(splits) <= policy.merge_factor THEN "TooSmall"
    ELSE "ValidSplit"

\* merge_candidate_size content with merge_factor - 1 splits.
merge_candidate_size_below_merge_factor(policy, splits) ==
    IF Len(splits) <= 1 THEN "TooSmall"
    ELSE IF Len(splits) >= policy.max_merge_factor THEN "OneMoreSplitWouldBeTooBig"
    ELSE IF SumNumDocsOf(splits) >= policy.split_num_docs_target
    THEN "OneMoreSplitWouldBeTooBig"
    ELSE IF Len(splits) < policy.merge_factor - 1 THEN "TooSmall"
    ELSE "ValidSplit"

\* merge_candidate_size taking one split more than max_merge_factor.
merge_candidate_size_above_max_merge_factor(policy, splits) ==
    IF Len(splits) <= 1 THEN "TooSmall"
    ELSE IF Len(splits) > policy.max_merge_factor THEN "OneMoreSplitWouldBeTooBig"
    ELSE IF SumNumDocsOf(splits) >= policy.split_num_docs_target
    THEN "OneMoreSplitWouldBeTooBig"
    ELSE IF Len(splits) < policy.merge_factor THEN "TooSmall"
    ELSE "ValidSplit"

\* merge_candidate_size taking any two splits for a valid candidate.
merge_candidate_size_any_two(policy, splits) ==
    IF Len(splits) <= 1 THEN "TooSmall"
    ELSE IF Len(splits) >= policy.max_merge_factor THEN "OneMoreSplitWouldBeTooBig"
    ELSE IF SumNumDocsOf(splits) >= policy.split_num_docs_target
    THEN "OneMoreSplitWouldBeTooBig"
    ELSE "ValidSplit"

\* merge_candidate_size not looking at the documents of the candidate.
merge_candidate_size_ignoring_num_docs(policy, splits) ==
    IF Len(splits) <= 1 THEN "TooSmall"
    ELSE IF Len(splits) >= policy.max_merge_factor THEN "OneMoreSplitWouldBeTooBig"
    ELSE IF Len(splits) < policy.merge_factor THEN "TooSmall"
    ELSE "ValidSplit"

\* StableMultitenantWithTimestampMergePolicy::merge_candidate_size.
merge_candidate_size(policy, splits) ==
    IF Len(splits) <= 1 THEN "TooSmall"
    ELSE IF Len(splits) >= policy.max_merge_factor THEN "OneMoreSplitWouldBeTooBig"
    ELSE IF SumNumDocsOf(splits) >= policy.split_num_docs_target
    THEN "OneMoreSplitWouldBeTooBig"
    ELSE IF Len(splits) < policy.merge_factor THEN "TooSmall"
    ELSE "ValidSplit"

\* The loop of merge_candidate_from_level over level_range.rev(), from
\* split_ord down: the start of the candidate when the loop ends.  count is
\* the number of splits of the level not yet visited.
RECURSIVE MergeCandidateStart(_, _, _, _, _)
MergeCandidateStart(policy, splits, count, merge_candidate_start, merge_candidate_end) ==
    IF count = 0 THEN merge_candidate_start
    ELSE IF merge_candidate_size(policy,
                                 Slice(splits, merge_candidate_start, merge_candidate_end))
            = "OneMoreSplitWouldBeTooBig"
    THEN merge_candidate_start
    ELSE MergeCandidateStart(policy, splits, count - 1, merge_candidate_start - 1,
                             merge_candidate_end)

\* merge_candidate_from_level taking the candidate of the same size from
\* the start of the level.
merge_candidate_from_level_from_start(policy, splits, level_range) ==
    LET merge_candidate_end == level_range.end
        merge_candidate_start ==
            MergeCandidateStart(policy, splits, level_range.end - level_range.start,
                                merge_candidate_end, merge_candidate_end)
    IN  IF merge_candidate_size(policy,
                                Slice(splits, merge_candidate_start, merge_candidate_end))
           = "TooSmall"
        THEN None
        ELSE Some(Range(level_range.start,
                        level_range.start + merge_candidate_end - merge_candidate_start))

\* StableMultitenantWithTimestampMergePolicy::merge_candidate_from_level.
merge_candidate_from_level(policy, splits, level_range) ==
    LET merge_candidate_end == level_range.end
        merge_candidate_start ==
            MergeCandidateStart(policy, splits, level_range.end - level_range.start,
                                merge_candidate_end, merge_candidate_end)
    IN  IF merge_candidate_size(policy,
                                Slice(splits, merge_candidate_start, merge_candidate_end))
           = "TooSmall"
        THEN None
        ELSE Some(Range(merge_candidate_start, merge_candidate_end))

\* MergeOperation::new_merge_operation; the merge split ids are numbered.
new_merge_operation(merge_split_id, splits) ==
    [merge_split_id |-> merge_split_id, splits |-> splits]

\* The loop of merge_operations over split_levels.into_iter().rev(), the
\* levels 1..level_ord being left.
RECURSIVE MergeLevels(_, _, _, _, _)
MergeLevels(policy, splits, split_levels, level_ord, ops) ==
    IF level_ord = 0 THEN [operations |-> ops, splits |-> splits]
    ELSE LET merge_range ==
                 merge_candidate_from_level(policy, splits, split_levels[level_ord])
         IN  IF IsSome(merge_range)
             THEN MergeLevels(
                      policy,
                      Drain(splits, Unwrap(merge_range).start, Unwrap(merge_range).end),
                      split_levels, level_ord - 1,
                      Append(ops,
                             new_merge_operation(
                                 Len(ops) + 1,
                                 Slice(splits, Unwrap(merge_range).start,
                                       Unwrap(merge_range).end))))
             ELSE MergeLevels(policy, splits, split_levels, level_ord - 1, ops)

\* merge_operations not putting the mature splits back.
merge_operations_without_extend(policy, splits) ==
    IF ~policy.merge_enabled \/ Len(splits) < 2
    THEN [operations |-> <<>>, splits |-> splits, panicked |-> FALSE]
    ELSE LET removed ==
                 remove_matching_items(
                     splits,
                     [split \in {splits[i] : i \in DOMAIN splits} |->
                         is_mature_for_merge(policy, split)])
             sorted == sort_by_key(removed.items)
             merged == MergeLevels(policy, sorted, build_split_levels(policy, sorted),
                                   Len(build_split_levels(policy, sorted)), <<>>)
         IN  [operations |-> merged.operations, splits |-> merged.splits,
              panicked |-> FALSE]

\* StableMultitenantWithTimestampMergePolicy::merge_operations: the operations
\* returned and the vector left; panicked when the assertion of
\* build_split_levels fails.
merge_operations(policy, splits) ==
    IF ~policy.merge_enabled \/ Len(splits) < 2
    THEN [operations |-> <<>>, splits |-> splits, panicked |-> FALSE]
    ELSE LET removed ==
                 remove_matching_items(
                     splits,
                     [split \in {splits[i] : i \in DOMAIN splits} |->
                         is_mature_for_merge(policy, split)])
             sorted == sort_by_key(removed.items)
         IN  IF ~BuildSplitLevelsAssertion(policy, sorted)
             THEN [operations |-> <<>>, splits |-> sorted, panicked |-> TRUE]
             ELSE LET merged ==
                          MergeLevels(policy, sorted, build_split_levels(policy, sorted),
                                      Len(build_split_levels(policy, sorted)), <<>>)
                  IN  [operations |-> merged.operations,
                       splits |-> merged.splits \o removed.matching_items,
                       panicked |-> FALSE]

RECURSIVE SumOperationsLen(_)
SumOperationsLen(ops) ==
    IF ops = <<>> THEN 0 ELSE Len(Head(ops).splits) + SumOperationsLen(Tail(ops))

\* MergePolicy::operations: merge_operations, with the two sides of its
\* debug_assert_eq.
operations(policy, splits) ==
    LET original_num_splits == Len(splits)
        result == merge_operations(policy, splits)
    IN  [operations |-> result.operations,
         splits |-> result.splits,
         panicked |-> result.panicked,
         debug_assert_eq |-> <<original_num_splits,
                               SumOperationsLen(result.operations) + Len(result.splits)>>]

\* case_levels_given_growth_factor, where its assertions hold.
RECURSIVE CaseLevelsFrom(_, _, _, _)
CaseLevelsFrom(policy, growth_factor, level_end_doc, levels_start_num_docs) ==
    IF level_end_doc < policy.split_num_docs_target
    THEN CaseLevelsFrom(policy, growth_factor, level_end_doc * growth_factor,
                        Append(levels_start_num_docs, level_end_doc))
    ELSE Append(levels_start_num_docs, policy.split_num_docs_target)

case_levels_given_growth_factor(policy, growth_factor) ==
    CaseLevelsFrom(policy, growth_factor, policy.min_level_num_docs, <<1>>)

\* max_num_splits_knowning_levels charging merge_factor splits for a
\* saturated level.
RECURSIVE max_num_splits_knowning_levels_full_levels(_, _, _, _)
max_num_splits_knowning_levels_full_levels(policy, num_docs, levels, sorted) ==
    IF num_docs = 0 THEN 0
    ELSE LET head == Head(levels)
             tail == Tail(levels)
             first_level_min_saturation_docs ==
                 IF sorted THEN head * (policy.merge_factor - 1)
                 ELSE head + (policy.merge_factor - 2)
         IN  IF num_docs < head THEN 0
             ELSE IF tail = <<>> \/ num_docs <= first_level_min_saturation_docs
             THEN (num_docs + head - 1) \div head
             ELSE policy.merge_factor
                  + max_num_splits_knowning_levels_full_levels(
                        policy, num_docs - first_level_min_saturation_docs, tail, sorted)

\* StableMultitenantWithTimestampMergePolicy::max_num_splits_knowning_levels.
RECURSIVE max_num_splits_knowning_levels(_, _, _, _)
max_num_splits_knowning_levels(policy, num_docs, levels, sorted) ==
    IF num_docs = 0 THEN 0
    ELSE LET head == Head(levels)
             tail == Tail(levels)
             first_level_min_saturation_docs ==
                 IF sorted THEN head * (policy.merge_factor - 1)
                 ELSE head + (policy.merge_factor - 2)
         IN  IF num_docs < head THEN 0
             ELSE IF tail = <<>> \/ num_docs <= first_level_min_saturation_docs
             THEN (num_docs + head - 1) \div head
             ELSE policy.merge_factor - 1
                  + max_num_splits_knowning_levels(
                        policy, num_docs - first_level_min_saturation_docs, tail, sorted)

max_num_splits_ideal_case(policy, num_docs) ==
    max_num_splits_knowning_levels(
        policy, num_docs, case_levels_given_growth_factor(policy, policy.merge_factor), TRUE)

max_num_splits_worst_case(policy, num_docs) ==
    max_num_splits_knowning_levels(
        policy, num_docs, case_levels_given_growth_factor(policy, 3), FALSE)

\* The policies operations is called on: the default one, and policies with
\* small factors and a target of 6 documents, with and without merging.
SmallMergePolicies ==
    {[min_level_num_docs |-> level, merge_enabled |-> TRUE,
      merge_factor |-> factors[1], max_merge_factor |-> factors[2],
      split_num_docs_target |-> 6] :
         level \in {1, 4}, factors \in {<<2, 2>>, <<2, 3>>, <<3, 3>>, <<3, 2>>}}
    \cup {[min_level_num_docs |-> 1, merge_enabled |-> FALSE,
           merge_factor |-> 2, max_merge_factor |-> 2, split_num_docs_target |-> 6]}

\* The kinds of splits given to the small policies: 1 or 3 documents with no
\* time range or one of two, or the 6 documents of a mature split, which is
\* not sorted.
SplitKinds ==
    {kind \in [num_docs : {1, 3, 6},
               time_range : {None, Some(RangeInclusive(0, 1)), Some(RangeInclusive(0, 2))}] :
        kind.num_docs = 6 => kind.time_range = Some(RangeInclusive(0, 1))}

\* The vector of splits of the given kinds, the split ids being the ordinals.
SplitsOfKinds(kinds) ==
    [i \in DOMAIN kinds |-> SplitMetadata(i - 1, kinds[i].num_docs, kinds[i].time_range)]

\* create_splits of the tests: the same time range for all the splits.
create_splits(num_docs_vec) ==
    [i \in DOMAIN num_docs_vec |->
        SplitMetadata(i - 1, num_docs_vec[i], Some(RangeInclusive(1630563067, 1630564067)))]

\* vec![num_docs; len]
Repeat(num_docs, len) == [i \in 1..len |-> num_docs]

\* The most splits of one size the tests give to the default policy.
MaxSameSizedSplits == 13

\* The calls of operations: the small policies on every vector of at most
\* MaxMergeSplits splits, the default policy on vectors of same-sized splits
\* and on the vectors of the tests, with and without merging.
MergeCalls ==
    {[policy |-> policy, splits |-> SplitsOfKinds(kinds)] :
        policy \in SmallMergePolicies, kinds \in SeqsUpTo(SplitKinds, MaxMergeSplits)}
    \cup {[policy |-> policy, splits |-> create_splits(Repeat(num_docs, len))] :
             policy \in {MergePolicyDefault, [MergePolicyDefault EXCEPT !.merge_enabled = FALSE]},
             num_docs \in {100, 1000000, 5000000},
             len \in 0..MaxSameSizedSplits}
    \cup {[policy |-> MergePolicyDefault, splits |-> create_splits(num_docs_vec)] :
             num_docs_vec \in
                 {<<100, 1000, 10000, 10000, 10000, 10000, 10000, 40000, 40000, 40000>>,
                  <<100000, 1000000, 1000000, 1000000, 1000000, 1000000, 1000000, 1000000>>,
                  <<100000, 100000, 100000, 100000, 100000, 10000000,
                    100000, 100000, 100000, 100000, 100000>>,
                  <<9999999, 10000000>>,
                  <<9999997, 9999998, 9999999>>,
                  <<9999999>>}}

MergeInit ==
    /\ IndexerNew
    /\ IndexingPipelineNew
    /\ WaitDurationNotRun
    /\ \E call \in MergeCalls :
           /\ merge_policy = Some(call.policy)
           /\ merge_input = call.splits
           /\ merge_splits = call.splits
    /\ merge_ops = None
    /\ max_num_splits_docs = None
    /\ max_num_splits = [worst_case |-> None, ideal_case |-> None]
    /\ split_groups = None

\* merge_policy.operations(&mut splits)
merge_policy_operations ==
    /\ IsSome(merge_policy)
    /\ merge_ops = None
    /\ \E result \in {operations(Unwrap(merge_policy), merge_splits)} :
           /\ merge_splits' = result.splits
           /\ merge_ops' = Some([operations |-> result.operations,
                                 panicked |-> result.panicked,
                                 debug_assert_eq |-> result.debug_assert_eq])
    /\ UNCHANGED <<merge_policy, merge_input, max_num_splits_docs, max_num_splits,
                   split_groups, indexer_vars, pipeline_vars, wait_vars>>

MergeNext == merge_policy_operations

MergeSpec == MergeInit /\ [][MergeNext]_vars

\* The vectors build_split_levels is called with on its own: those of its
\* tests under the default policy, and those operations is called with, as
\* they are given.
BuildSplitLevelsCalls ==
    MergeCalls
    \cup {[policy |-> MergePolicyDefault, splits |-> create_splits(num_docs_vec)] :
             num_docs_vec \in
                 {<<100000, 100000, 100000, 800000, 900000>>,
                  <<100000, 100000, 100000, 100000, 100000, 100000, 100000, 100000,
                    800000, 1600000>>,
                  <<100000, 100000, 100000, 100000, 100000, 100000, 100000, 100000,
                    800000, 100000, 1600000>>,
                  <<11000000>>}}

BuildSplitLevelsInit ==
    /\ IndexerNew
    /\ IndexingPipelineNew
    /\ WaitDurationNotRun
    /\ \E call \in BuildSplitLevelsCalls :
           /\ merge_policy = Some(call.policy)
           /\ merge_input = call.splits
           /\ merge_splits = call.splits
    /\ merge_ops = None
    /\ max_num_splits_docs = None
    /\ max_num_splits = [worst_case |-> None, ideal_case |-> None]
    /\ split_groups = None

\* merge_policy.build_split_levels(&splits): the levels, or the panic of
\* its assertion.
test_build_split_levels ==
    /\ IsSome(merge_policy)
    /\ split_groups = None
    /\ split_groups' =
           IF BuildSplitLevelsAssertion(Unwrap(merge_policy), merge_splits)
           THEN Some([levels |-> build_split_levels(Unwrap(merge_policy), merge_splits),
                      panicked |-> FALSE])
           ELSE Some([levels |-> <<>>, panicked |-> TRUE])
    /\ UNCHANGED <<merge_policy, merge_input, merge_splits, merge_ops, max_num_splits_docs,
                   max_num_splits, indexer_vars, pipeline_vars, wait_vars>>

BuildSplitLevelsNext == test_build_split_levels

BuildSplitLevelsSpec == BuildSplitLevelsInit /\ [][BuildSplitLevelsNext]_vars

\* The numbers of documents max_num_splits_worst_case and
\* max_num_splits_ideal_case are called with: those of the tests, and the
\* small ones.
MaxNumSplitsDocs ==
    (0..MaxNumDocs)
    \cup {99, 1000000, 2000000, 3000000, 4000000, 5000000, 7000000, 10000000,
          20000000, 100000000, 1000000000}

MaxNumSplitsInit ==
    /\ IndexerNew
    /\ IndexingPipelineNew
    /\ WaitDurationNotRun
    /\ merge_policy = Some(MergePolicyDefault)
    /\ merge_input = <<>>
    /\ merge_splits = <<>>
    /\ merge_ops = None
    /\ max_num_splits_docs \in {Some(num_docs) : num_docs \in MaxNumSplitsDocs}
    /\ max_num_splits = [worst_case |-> None, ideal_case |-> None]
    /\ split_groups = None

test_max_num_splits_worst_case ==
    /\ IsSome(max_num_splits_docs)
    /\ max_num_splits.worst_case = None
    /\ max_num_splits' =
           [max_num_splits EXCEPT !.worst_case =
               Some(max_num_splits_worst_case(Unwrap(merge_policy),
                                              Unwrap(max_num_splits_docs)))]
    /\ UNCHANGED <<merge_policy, merge_input, merge_splits, merge_ops, max_num_splits_docs,
                   split_groups, indexer_vars, pipeline_vars, wait_vars>>

test_max_num_splits_ideal_case ==
    /\ IsSome(max_num_splits_docs)
    /\ max_num_splits.ideal_case = None
    /\ max_num_splits' =
           [max_num_splits EXCEPT !.ideal_case =
               Some(max_num_splits_ideal_case(Unwrap(merge_policy),
                                              Unwrap(max_num_splits_docs)))]
    /\ UNCHANGED <<merge_policy, merge_input, merge_splits, merge_ops, max_num_splits_docs,
                   split_groups, indexer_vars, pipeline_vars, wait_vars>>

MaxNumSplitsNext ==
    \/ test_max_num_splits_worst_case
    \/ test_max_num_splits_ideal_case

MaxNumSplitsSpec == MaxNumSplitsInit /\ [][MaxNumSplitsNext]_vars

\* ------------------------------------------------------------------- claims

RECURSIVE SumNumDocs(_, _)
SumNumDocs(splits, partitions) ==
    IF partitions = {} THEN 0
    ELSE LET p == CHOOSE q \in partitions : TRUE
         IN  splits[p].num_docs + SumNumDocs(splits, partitions \ {p})

\* Documents held by the splits of a workbench.
NumDocsInSplits(splits) == SumNumDocs(splits, DOMAIN splits)

NumSplits(wb) == Cardinality(DOMAIN wb.indexed_splits)

\* The state the handler that runs, or the one a step starts, started from.
Started == IF IsSome(suspended) THEN Unwrap(suspended).before ELSE Before

\* The dead locks as publish_lock.is_dead() found them in the handler of a
\* RawDocBatch, or finds them in the step.
StartedDeadLocks ==
    IF IsSome(suspended) /\ Unwrap(suspended).at # "schedule_self_msg"
    THEN Unwrap(suspended).before.dead_locks
    ELSE dead_locks

\* The message of the handler that runs, or of the last that ran.
Handling == IF IsSome(suspended) THEN Unwrap(suspended).msg ELSE last.msg

\* The step sends nothing to the packager, asks nothing of the metastore and
\* takes no workbench.
NoOutput ==
    /\ packager_inbox' = <<>>
    /\ publish_splits_calls' = <<>>
    /\ taken' = None

\* The step commits the workbench that is current before it: the workbench is
\* taken; with splits, one batch of them goes to the packager and the counters
\* are updated; without splits, its checkpoint delta is published if its lock
\* is alive.
FlushesCurrentWorkbench ==
    /\ IsSome(Started.workbench_opt)
    /\ taken' = Started.workbench_opt
    /\ indexing_workbench_opt' = None
    /\ LET wb == Unwrap(Started.workbench_opt)
       IN  IF NumSplits(wb) > 0
           THEN /\ packager_inbox' = <<[splits |-> wb.indexed_splits,
                                        checkpoint_delta |-> Some(wb.checkpoint_delta),
                                        publish_lock |-> wb.publish_lock]>>
                /\ publish_splits_calls' = <<>>
                /\ counters' = [Started.counters EXCEPT
                                   !.num_docs_in_workbench = 0,
                                   !.num_splits_emitted = @ + NumSplits(wb),
                                   !.num_split_batches_emitted = @ + 1]
           ELSE /\ packager_inbox' = <<>>
                /\ counters' = Started.counters
                /\ publish_splits_calls' =
                       IF wb.publish_lock \in dead_locks THEN <<>>
                       ELSE <<[split_ids |-> <<>>, replaced_split_ids |-> <<>>,
                               checkpoint_delta_opt |-> Some(wb.checkpoint_delta)]>>

\* C1: when a RawDocBatch has been handled, if num_docs_in_workbench has
\* reached split_num_docs_target the workbench is flushed in that handler:
\* one IndexedSplitBatch with all the splits of the workbench goes to the
\* packager, num_docs_in_workbench is reset to 0, num_splits_emitted grows by
\* the number of splits and num_split_batches_emitted by one; below the
\* target the handler flushes nothing.
C1_DocLimitFlush ==
    [][last'.msg = "RawDocBatch" =>
        LET added == counters'.num_valid_docs - Started.counters.num_valid_docs
            reached == Started.counters.num_docs_in_workbench + added
            held == IF IsSome(Started.workbench_opt)
                    THEN NumDocsInSplits(Unwrap(Started.workbench_opt).indexed_splits)
                    ELSE 0
        IN  IF reached >= split_num_docs_target
            THEN /\ IsSome(taken')
                 /\ indexing_workbench_opt' = None
                 /\ Len(packager_inbox') = 1
                 /\ packager_inbox'[1].splits = Unwrap(taken').indexed_splits
                 /\ NumDocsInSplits(packager_inbox'[1].splits) = held + added
                 /\ publish_splits_calls' = <<>>
                 /\ counters'.num_docs_in_workbench = 0
                 /\ counters'.num_splits_emitted =
                        Started.counters.num_splits_emitted + NumSplits(Unwrap(taken'))
                 /\ counters'.num_split_batches_emitted =
                        Started.counters.num_split_batches_emitted + 1
            ELSE /\ NoOutput
                 /\ IsSome(indexing_workbench_opt')
                 /\ counters'.num_docs_in_workbench = reached
                 /\ counters'.num_splits_emitted = Started.counters.num_splits_emitted
                 /\ counters'.num_split_batches_emitted =
                        Started.counters.num_split_batches_emitted]_vars

\* A RawDocBatch brought the workbench to the target and the batch of its
\* documents was sent.
C1_Witness ==
    /\ last.msg = "RawDocBatch"
    /\ Len(packager_inbox) = 1
    /\ NumDocsInSplits(packager_inbox[1].splits) = split_num_docs_target
    /\ counters.num_docs_in_workbench = 0
    /\ counters.num_split_batches_emitted = 1

\* C2: a CommitTimeout flushes the current workbench if and only if it
\* carries the id of the current workbench; one carrying the id of an earlier
\* workbench, or arriving when there is no workbench, changes nothing: no
\* batch, no metastore call, no counter change.
C2_CommitTimeoutById ==
    [][last'.msg = "CommitTimeout" =>
        IF /\ IsSome(Started.workbench_opt)
           /\ Unwrap(Started.workbench_opt).workbench_id = last'.id
        THEN FlushesCurrentWorkbench
        ELSE /\ NoOutput
             /\ counters' = Started.counters
             /\ indexing_workbench_opt' = Started.workbench_opt
             /\ exit_status' = exit_status]_vars

\* The CommitTimeout of an earlier workbench was handled while another
\* workbench is current, and that workbench stays.
C2_Witness ==
    /\ last.msg = "CommitTimeout"
    /\ IsSome(indexing_workbench_opt)
    /\ Unwrap(indexing_workbench_opt).workbench_id > last.id
    /\ Unwrap(indexing_workbench_opt).checkpoint_delta # EmptyDelta
    /\ taken = None

\* C3: on exit with Success or Quit, finalize flushes the current workbench,
\* if any, as a commit does; on exit with Killed, Failure, Panicked or
\* DownstreamClosed nothing is sent to the packager and no metastore call is
\* made, whatever the workbench holds.
C3_FinalizeByExitStatus ==
    [][(exit_status = None /\ exit_status' # None) =>
        IF Unwrap(exit_status') \in {"Success", "Quit"}
        THEN IF IsSome(Started.workbench_opt)
             THEN FlushesCurrentWorkbench
             ELSE NoOutput /\ counters' = Started.counters
        ELSE /\ Unwrap(exit_status') \in
                    {"Killed", "Failure", "Panicked", "DownstreamClosed"}
             /\ packager_inbox' = <<>>
             /\ publish_splits_calls' = <<>>
             /\ taken' = None
             /\ counters' = Started.counters]_vars

\* The indexer was killed while its workbench held a split: nothing was sent.
C3_Witness ==
    /\ exit_status = Some("Killed")
    /\ IsSome(indexing_workbench_opt)
    /\ NumSplits(Unwrap(indexing_workbench_opt)) = 1
    /\ packager_inbox = <<>>

\* The workbench a step leaves or has taken: the one the handler worked on.
WorkbenchAfter == IF IsSome(indexing_workbench_opt') THEN indexing_workbench_opt' ELSE taken'

\* C4: NewPublishLock replaces the active lock and discards the current
\* workbench, whatever it holds: nothing of it is sent or published, then or
\* later, and the next workbench is created with the new lock and an empty
\* checkpoint delta.  Later handlers only ever work on, send and publish the
\* workbench that is current, or one created under a fresh id with the active
\* lock, no split and no checkpoint delta but those of the batch that
\* creates it.
C4_NewPublishLockDiscards ==
    [][/\ last'.msg = "NewPublishLock" =>
            /\ indexing_workbench_opt' = None
            /\ NoOutput
            /\ publish_lock' # publish_lock
            /\ publish_lock' = last'.id
            /\ next_ulid' = next_ulid
       /\ IsSome(indexing_workbench_opt) =>
            Unwrap(indexing_workbench_opt).workbench_id < next_ulid
       /\ next_ulid' >= next_ulid
       /\ IsSome(WorkbenchAfter) =>
            Unwrap(WorkbenchAfter).workbench_id =
                IF IsSome(Started.workbench_opt)
                THEN Unwrap(Started.workbench_opt).workbench_id
                ELSE Started.next_ulid
       /\ packager_inbox' # <<>> =>
            /\ IsSome(taken')
            /\ packager_inbox' = <<[splits |-> Unwrap(taken').indexed_splits,
                                    checkpoint_delta |-> Some(Unwrap(taken').checkpoint_delta),
                                    publish_lock |-> Unwrap(taken').publish_lock]>>
       /\ publish_splits_calls' # <<>> =>
            /\ IsSome(taken')
            /\ publish_splits_calls' =
                   <<[split_ids |-> <<>>, replaced_split_ids |-> <<>>,
                      checkpoint_delta_opt |-> Some(Unwrap(taken').checkpoint_delta)]>>
       /\ (~IsSome(Started.workbench_opt) /\ IsSome(WorkbenchAfter)) =>
            LET wb == Unwrap(WorkbenchAfter)
            IN  /\ Handling' = "RawDocBatch"
                /\ next_ulid' = Started.next_ulid + 1
                /\ wb.publish_lock = publish_lock
                /\ wb.checkpoint_delta \in {EmptyDelta, last'.delta}
                /\ NumDocsInSplits(wb.indexed_splits) =
                       counters'.num_valid_docs - Started.counters.num_valid_docs]_vars

\* A NewPublishLock has just discarded a workbench holding a valid document.
C4_Witness ==
    /\ last.msg = "NewPublishLock"
    /\ indexing_workbench_opt = None
    /\ counters.num_valid_docs >= 1
    /\ counters.num_split_batches_emitted = 0
    /\ next_ulid = 2

\* C5 as stated: a RawDocBatch handled while the lock of the current workbench
\* is dead is dropped (no counter changes, the checkpoint delta is not
\* extended, no split is created, the handler returns without error), and a
\* graceful quit that follows emits no batch and makes no publish_splits call.
C5_DeadLockDropsBatch_AsStated ==
    [][/\ (/\ last'.msg = "RawDocBatch"
           /\ get_or_create_workbench(Started.workbench_opt, Started.next_ulid,
                                      publish_lock).publish_lock \in StartedDeadLocks) =>
            /\ counters' = Started.counters
            /\ last'.result = "Ok"
            /\ exit_status' = exit_status
            /\ NoOutput
            /\ indexing_workbench_opt' =
                   Some(get_or_create_workbench(Started.workbench_opt, Started.next_ulid,
                                                publish_lock))
            /\ fed' = fed
       /\ (/\ Started.last.msg = "RawDocBatch"
           /\ IsSome(Started.workbench_opt)
           /\ Unwrap(Started.workbench_opt).publish_lock \in Started.dead_locks
           /\ exit_status = None
           /\ exit_status' \in {Some("Quit"), Some("Success")}) =>
            /\ packager_inbox' = <<>>
            /\ publish_splits_calls' = <<>>]_vars

\* C5, amended: the batch is dropped as above; a graceful quit that follows
\* makes no publish_splits call, and emits no batch if the workbench holds no
\* split; if it holds splits, indexed before its lock died, the quit emits
\* the one batch of them, under the dead lock.
C5_DeadLockDropsBatch ==
    [][/\ (/\ last'.msg = "RawDocBatch"
           /\ get_or_create_workbench(Started.workbench_opt, Started.next_ulid,
                                      publish_lock).publish_lock \in StartedDeadLocks) =>
            /\ counters' = Started.counters
            /\ last'.result = "Ok"
            /\ exit_status' = exit_status
            /\ NoOutput
            /\ indexing_workbench_opt' =
                   Some(get_or_create_workbench(Started.workbench_opt, Started.next_ulid,
                                                publish_lock))
            /\ fed' = fed
       /\ (/\ Started.last.msg = "RawDocBatch"
           /\ IsSome(Started.workbench_opt)
           /\ Unwrap(Started.workbench_opt).publish_lock \in Started.dead_locks
           /\ exit_status = None
           /\ exit_status' \in {Some("Quit"), Some("Success")}) =>
            LET wb == Unwrap(Started.workbench_opt)
            IN  /\ publish_splits_calls' = <<>>
                /\ NumSplits(wb) = 0 => packager_inbox' = <<>>
                /\ NumSplits(wb) > 0 =>
                       /\ Len(packager_inbox') = 1
                       /\ packager_inbox'[1].splits = wb.indexed_splits
                       /\ packager_inbox'[1].publish_lock \in dead_locks]_vars

\* A batch has just been dropped under a dead lock while the workbench holds
\* a split indexed before the lock died.
C5_Witness ==
    /\ last.msg = "RawDocBatch"
    /\ last.delta # EmptyDelta
    /\ IsSome(indexing_workbench_opt)
    /\ Unwrap(indexing_workbench_opt).publish_lock \in dead_locks
    /\ NumSplits(Unwrap(indexing_workbench_opt)) = 1
    /\ counters.num_docs_in_workbench = 1

\* C6: when a workbench without splits is flushed and its publish lock is
\* alive, nothing is sent to the packager and publish_splits is called
\* exactly once, with no split id, no replaced split id and the checkpoint
\* delta the workbench accumulated.
C6_PublishesCheckpointOnly ==
    (/\ IsSome(taken)
     /\ ~IsSome(suspended)
     /\ NumSplits(Unwrap(taken)) = 0
     /\ Unwrap(taken).publish_lock \notin dead_locks) =>
        /\ packager_inbox = <<>>
        /\ publish_splits_calls =
               <<[split_ids |-> <<>>, replaced_split_ids |-> <<>>,
                  checkpoint_delta_opt |-> Some(Unwrap(taken).checkpoint_delta)]>>

\* One invalid document on [0,1), then a graceful quit: one publish_splits
\* call covering [0,1), nothing sent to the packager.
C6_Witness ==
    /\ exit_status = Some("Quit")
    /\ fed.docs = 1
    /\ fed.parse_errors = 1
    /\ IsSome(taken)
    /\ packager_inbox = <<>>
    /\ publish_splits_calls =
           <<[split_ids |-> <<>>, replaced_split_ids |-> <<>>,
              checkpoint_delta_opt |-> Some(<<0, 1>>)]>>

\* C7: when the publish lock was killed after only invalid documents were
\* ingested and before the flush, the flush makes no publish_splits call,
\* sends nothing to the packager and does not fail: the exit status is the
\* one the indexer was stopped with.
C7_DeadLockSkipsPublish ==
    (/\ IsSome(taken)
     /\ NumSplits(Unwrap(taken)) = 0
     /\ Unwrap(taken).publish_lock \in dead_locks) =>
        /\ publish_splits_calls = <<>>
        /\ packager_inbox = <<>>
        /\ last.result = "Ok"
        /\ exit_status # Some("Failure")

\* An invalid document was ingested, the lock was killed, and the indexer
\* exited with Success: the flush published nothing.
C7_Witness ==
    /\ last.msg = "Exit"
    /\ exit_status = Some("Success")
    /\ IsSome(taken)
    /\ NumSplits(Unwrap(taken)) = 0
    /\ Unwrap(taken).publish_lock \in dead_locks
    /\ Unwrap(taken).checkpoint_delta # EmptyDelta
    /\ num_invalid_docs(counters) >= 1
    /\ publish_splits_calls = <<>>

\* C8: a RawDocBatch handled under a live lock whose checkpoint delta does
\* not start where the delta of the previously accepted batch ends (no lock
\* rotation in between) fails, the actor exits with a failure, and no counter
\* is updated.
C8_RejectsGaps_AsStated ==
    [][(/\ Started.last.msg = "RawDocBatch"
        /\ Started.last.result = "Ok"
        /\ Started.last.delta # EmptyDelta
        /\ publish_lock \notin StartedDeadLocks
        /\ last'.msg = "RawDocBatch"
        /\ last'.delta # EmptyDelta
        /\ last'.delta[1] # Started.last.delta[2]
        /\ exit_status = None) =>
            /\ last'.result = "Err"
            /\ exit_status' = Some("Failure")
            /\ counters' = Started.counters]_vars

\* C9: num_valid_docs + num_parse_errors + num_missing_fields is the number
\* of documents of the batches the indexer accepted (live lock, contiguous
\* checkpoint); every document of such a batch is counted in exactly one of
\* the three counters, by its outcome, the documents that follow an invalid
\* one included.
C9_CountersCoverAcceptedDocs ==
    /\ num_processed_docs(counters) = fed.docs
    /\ counters.num_valid_docs = fed.valid
    /\ counters.num_parse_errors = fed.parse_errors
    /\ counters.num_missing_fields = fed.missing_fields
    /\ num_invalid_docs(counters) = fed.parse_errors + fed.missing_fields
    /\ counters.overall_num_bytes = fed.bytes

\* Two batches at most brought a document of each outcome, a valid one after
\* an invalid one.
C9_Witness ==
    /\ counters.num_parse_errors = 1
    /\ counters.num_missing_fields = 1
    /\ counters.num_valid_docs = 1
    /\ next_ulid = 2
    /\ fed.docs = 3

\* C10: after every flush of a workbench, whether it emits a split batch or
\* only publishes a checkpoint, num_docs_in_workbench is 0.
C10_FlushResetsNumDocsInWorkbench ==
    (/\ IsSome(taken)
     /\ packager_inbox # <<>> \/ publish_splits_calls # <<>>) =>
        counters.num_docs_in_workbench = 0

\* C11: every output of a flush, an IndexedSplitBatch sent to the packager
\* or a publish_splits call, carries a split or a checkpoint delta that is not
\* empty, whatever the batches handled (batches without documents or with an
\* empty delta included).
C11_OutputNeverEmpty ==
    /\ \A i \in DOMAIN packager_inbox :
           \/ DOMAIN packager_inbox[i].splits # {}
           \/ packager_inbox[i].checkpoint_delta # Some(EmptyDelta)
    /\ \A i \in DOMAIN publish_splits_calls :
           \/ publish_splits_calls[i].split_ids # <<>>
           \/ publish_splits_calls[i].checkpoint_delta_opt # Some(EmptyDelta)

\* The place of the workbench id in the order of the commits.
CommitRank(id) == CHOOSE k \in DOMAIN committed' : committed'[k] = id

\* C12: an IndexedSplitBatch carries the lock that was the indexer's active
\* lock when its workbench was created, and holds the valid documents
\* ingested since then and no other: the lock of a workbench is the active
\* lock for as long as the workbench is current, documents are added to it
\* under that lock only, and a commit sends one batch, of the workbench it
\* took.  The batches reach the packager in the order their workbenches were
\* committed: the mailbox grows at its end, by the batch the handler sends;
\* a workbench is committed once; of two batches in the mailbox, the first
\* is of the workbench committed first, and carries the lock handed over
\* first; every batch counted in num_split_batches_emitted is in the mailbox.
C12_BatchCarriesLockOfItsWorkbench ==
    [][/\ IsSome(indexing_workbench_opt') =>
            Unwrap(indexing_workbench_opt').publish_lock = publish_lock'
       /\ (~IsSome(Started.workbench_opt) /\ IsSome(WorkbenchAfter)) =>
            /\ Unwrap(WorkbenchAfter).publish_lock = publish_lock
            /\ Unwrap(WorkbenchAfter).workbench_id = Started.next_ulid
       /\ (IsSome(Started.workbench_opt) /\ IsSome(WorkbenchAfter)) =>
            /\ Unwrap(WorkbenchAfter).publish_lock =
                   Unwrap(Started.workbench_opt).publish_lock
            /\ Unwrap(WorkbenchAfter).workbench_id =
                   Unwrap(Started.workbench_opt).workbench_id
       /\ counters'.num_valid_docs # counters.num_valid_docs =>
            /\ publish_lock' = publish_lock
            /\ publish_lock \notin dead_locks
            /\ Unwrap(WorkbenchAfter).publish_lock = publish_lock
       /\ publish_lock' # publish_lock =>
            /\ indexing_workbench_opt' = None
            /\ taken' = None
            /\ \A p \in Partitions : ingested'[p] = 0
       /\ packager_inbox' # <<>> =>
            /\ Len(packager_inbox') = 1
            /\ IsSome(taken')
            /\ packager_inbox'[1].publish_lock = Unwrap(taken').publish_lock
            /\ packager_inbox'[1].publish_lock = publish_lock
            /\ \A p \in Partitions :
                   IF ingested'[p] = 0 THEN p \notin DOMAIN packager_inbox'[1].splits
                   ELSE /\ p \in DOMAIN packager_inbox'[1].splits
                        /\ packager_inbox'[1].splits[p].num_docs = ingested'[p]
            /\ counters'.num_split_batches_emitted =
                   counters.num_split_batches_emitted + 1
       /\ IF packager_inbox' = <<>>
          THEN delivered' = delivered
          ELSE /\ Len(delivered') = Len(delivered) + 1
               /\ SubSeq(delivered', 1, Len(delivered)) = delivered
               /\ delivered'[Len(delivered')] =
                      [workbench_id |-> Unwrap(taken').workbench_id,
                       publish_lock |-> packager_inbox'[1].publish_lock,
                       num_splits |-> NumSplits(Unwrap(taken'))]
               /\ committed'[Len(committed')] = Unwrap(taken').workbench_id
       /\ IF IsSome(taken') /\ ~IsSome(taken)
          THEN committed' = Append(committed, Unwrap(taken').workbench_id)
          ELSE committed' = committed
       /\ \A i, j \in DOMAIN committed' : i < j => committed'[i] < committed'[j]
       /\ \A i \in DOMAIN delivered' :
              /\ \E k \in DOMAIN committed' : committed'[k] = delivered'[i].workbench_id
              /\ delivered'[i].publish_lock <= publish_lock'
              /\ delivered'[i].num_splits >= 1
       /\ \A i, j \in DOMAIN delivered' :
              i < j => /\ CommitRank(delivered'[i].workbench_id) <
                              CommitRank(delivered'[j].workbench_id)
                       /\ delivered'[i].publish_lock <= delivered'[j].publish_lock
       /\ Len(delivered') = counters'.num_split_batches_emitted]_vars

\* NewPublishLock(foo), a document, its commit, NewPublishLock(bar), a
\* document and the exit with Success: the packager's mailbox holds two
\* batches of one split, the first carrying foo and the second bar.
C12_Witness ==
    /\ exit_status = Some("Success")
    /\ last.msg = "Exit"
    /\ publish_lock = 2
    /\ dead_locks = {}
    /\ counters.num_valid_docs = 2
    /\ num_processed_docs(counters) = 2
    /\ committed = <<1, 2>>
    /\ delivered = <<[workbench_id |-> 1, publish_lock |-> 1, num_splits |-> 1],
                     [workbench_id |-> 2, publish_lock |-> 2, num_splits |-> 1]>>
    /\ Len(packager_inbox) = 1
    /\ packager_inbox[1].publish_lock = 2
    /\ NumDocsInSplits(packager_inbox[1].splits) = 1

\* C13: a workbench has exactly one IndexedSplit per partition key among its
\* valid documents, and each of these documents is counted in the split of
\* its key; a flush sends all these splits in one batch and num_splits_emitted
\* grows by the number of distinct keys.
C13_OneSplitPerPartitionKey ==
    [][/\ IsSome(WorkbenchAfter) =>
            LET splits == Unwrap(WorkbenchAfter).indexed_splits
            IN  /\ DOMAIN splits = {p \in Partitions : ingested'[p] > 0}
                /\ \A p \in DOMAIN splits :
                       /\ splits[p].partition_id = p
                       /\ splits[p].num_docs = ingested'[p]
       /\ (/\ IsSome(taken')
           /\ ~IsSome(suspended')
           /\ DOMAIN Unwrap(taken').indexed_splits # {}) =>
            /\ Len(packager_inbox') = 1
            /\ packager_inbox'[1].splits = Unwrap(taken').indexed_splits
            /\ counters'.num_splits_emitted =
                   Started.counters.num_splits_emitted +
                       Cardinality({p \in Partitions : ingested'[p] > 0})]_vars

\* Documents of partition keys 1, 2 and 1 were flushed: one batch of two
\* splits, of two documents and of one.
C13_Witness ==
    /\ Len(packager_inbox) = 1
    /\ DOMAIN packager_inbox[1].splits = {1, 2}
    /\ packager_inbox[1].splits[1].num_docs = 2
    /\ packager_inbox[1].splits[2].num_docs = 1
    /\ counters.num_splits_emitted = 2
    /\ counters.num_split_batches_emitted = 1

\* C14: overall_num_bytes is the sum of the lengths of the documents of the
\* accepted batches, valid or not; no commit and no lock rotation resets it.
C14_OverallNumBytes ==
    /\ [](counters.overall_num_bytes = fed.bytes)
    /\ [][/\ counters'.overall_num_bytes >= counters.overall_num_bytes
          /\ Handling' # "RawDocBatch" =>
                 counters'.overall_num_bytes = counters.overall_num_bytes]_vars

\* Valid and invalid documents were counted, a workbench was committed and
\* the lock rotated: the bytes of all of them are still counted.
C14_Witness ==
    /\ last.msg = "NewPublishLock"
    /\ counters.num_split_batches_emitted = 1
    /\ counters.num_parse_errors = 1
    /\ counters.num_missing_fields = 1
    /\ counters.num_valid_docs = 1
    /\ counters.overall_num_bytes >= 5

\* ------------------------------------------------------ claims: supervisor

\* The state the handler that the supervisor runs, or the one a step starts,
\* started from, and the self messages that were scheduled then.
PipelineStarted ==
    IF IsSome(pipeline_suspended) THEN Unwrap(pipeline_suspended).before ELSE PipelineBefore

\* The last handler was a Supervise tick over the children of a generation.
SupervisedGeneration == pipeline_last.msg = "Supervise" /\ IsSome(pipeline_last.healths)

\* What healthcheck made of the answers of the last Supervise tick.
LastHealth == healthcheck(Unwrap(pipeline_last.healths))

\* The Spawn messages the last handler scheduled.
ScheduledSpawns == {m \in pipeline_last.scheduled : m.msg = "Spawn"}

\* C15: after a Supervise tick that finds a child FailureOrUnhealthy, the
\* kill switch of the generation is dead, the handles are dropped, and a
\* Spawn is scheduled whose delay is wait_duration_before_retry(retry_count)
\* for the retry_count it carries.
C15_FailureRespawnsAfterBackoff ==
    (SupervisedGeneration /\ LastHealth = "FailureOrUnhealthy") =>
        /\ kill_switch.dead
        /\ handles = None
        /\ \E m \in ScheduledSpawns :
               m.delay = wait_duration_before_retry(Usize(m.retry_count), overflow_checks)

\* C16: a Supervise tick over a generation with no child FailureOrUnhealthy
\* makes the supervisor exit with Success when no child is Healthy, and
\* otherwise only schedules the next Supervise tick, the generation being
\* left as it is; one FailureOrUnhealthy child makes the generation failing
\* whatever the number of Success children.
C16_SuperviseSuccessOrHealthy ==
    [][(pipeline_last'.msg = "Supervise" /\ IsSome(pipeline_last'.healths)) =>
           LET h == Unwrap(pipeline_last'.healths)
               started == PipelineStarted.state
           IN  /\ (h.failure_or_unhealthy = 0 /\ h.healthy = 0) =>
                      /\ pipeline_exit_status' = Some("Success")
                      /\ pipeline_last'.scheduled = {}
                      /\ pending' = PipelineStarted.pending \ {SuperviseMsg(HEARTBEAT)}
                      /\ handles' = started.handles /\ kill_switch' = started.kill_switch
               /\ (h.failure_or_unhealthy = 0 /\ h.healthy # 0) =>
                      /\ pipeline_exit_status' = None
                      /\ pipeline_last'.scheduled = {SuperviseMsg(HEARTBEAT)}
                      /\ pending' = PipelineStarted.pending \cup {SuperviseMsg(HEARTBEAT)}
                      /\ handles' = started.handles /\ kill_switch' = started.kill_switch
                      /\ statistics' = started.statistics
               /\ h.failure_or_unhealthy # 0 =>
                      /\ pipeline_exit_status' = None
                      /\ kill_switch'.dead /\ handles' = None
                      /\ \E sp \in pipeline_last'.scheduled : sp.msg = "Spawn"]_vars

\* C16 witness: the supervisor has exited with Success on a tick whose
\* children were all Success.
C16_Witness ==
    /\ SupervisedGeneration
    /\ Unwrap(pipeline_last.healths).success = NumSupervisables
    /\ pipeline_exit_status = Some("Success")

\* C17: a spawn attempt that fails with MetastoreError::IndexDoesNotExist
\* makes the supervisor exit with Success, and no Spawn is scheduled or left
\* pending, whatever the retry count of the Spawn.
C17_IndexDoesNotExistExits ==
    [][(pipeline_last'.msg = "Spawn" /\ pipeline_last'.outcome = "IndexDoesNotExist") =>
           /\ pipeline_exit_status' = Some("Success")
           /\ pipeline_last'.scheduled = {}
           /\ \A sp \in pending' : sp.msg # "Spawn"
           /\ handles' = None]_vars

\* C17 witness: a retried Spawn has met IndexDoesNotExist and the supervisor
\* has exited with Success.
C17_Witness ==
    /\ pipeline_last.msg = "Spawn"
    /\ pipeline_last.outcome = "IndexDoesNotExist"
    /\ pipeline_last.retry_count >= 1
    /\ pipeline_exit_status = Some("Success")

\* A Spawn is at hand: the one of initialize, or a scheduled one.
SpawnAtHand == PipelineRunning /\ \E m \in MessagesAtHand : m.msg = "Spawn"

\* C18: a spawn attempt with retry_count = n that fails with another error
\* schedules exactly one Spawn, with retry_count = n + 1 and the delay
\* wait_duration_before_retry(n), the supervisor going on; and a Spawn at
\* hand leads to a spawned generation, unless the supervisor exits.
C18_SpawnErrorsRetried ==
    /\ [][(pipeline_last'.msg = "Spawn" /\ pipeline_last'.outcome = "OtherError") =>
              /\ pipeline_exit_status' = None
              /\ pipeline_last'.scheduled =
                     {SpawnMsg(pipeline_last'.retry_count + 1,
                               wait_duration_before_retry(Usize(pipeline_last'.retry_count),
                                                          overflow_checks))}
              /\ {sp \in pending' : sp.msg = "Spawn"} = pipeline_last'.scheduled]_vars
    /\ SpawnAtHand ~> ((IsSome(handles) /\ statistics.generation >= 1) \/ ~PipelineRunning)

\* C18 witness: a Spawn retried after failures has spawned the first
\* generation.
C18_Witness ==
    /\ pipeline_last.msg = "Spawn"
    /\ pipeline_last.retry_count = MaxSpawnFailures
    /\ pipeline_last.outcome = "Ok"
    /\ IsSome(handles)
    /\ statistics.generation = 1

\* C19: num_spawn_attempts is the number of spawn attempts made, generation
\* the number of those that succeeded, and generation <= num_spawn_attempts.
C19_AttemptsAndGeneration ==
    /\ statistics.num_spawn_attempts = spawned.attempts
    /\ statistics.generation = spawned.successes
    /\ statistics.generation <= statistics.num_spawn_attempts

\* C19 witness: two failed attempts and then a successful one give
\* num_spawn_attempts = 3 and generation = 1.
C19_Witness ==
    /\ spawned = [attempts |-> 3, successes |-> 1]
    /\ statistics.generation = 1
    /\ statistics.num_spawn_attempts = 3
    /\ IsSome(handles)

\* min(2^(n + 1), 600) for a usize n.
ExpectedWaitSecs(n) ==
    IF n.top = 0 /\ n.hi = 0 /\ n.lo < 9 THEN 2^(n.lo + 1) ELSE 600

\* C20: wait_duration_before_retry(n) is min(2^(n + 1), 600) seconds for
\* every retry count n, without overflow.
C20_WaitDurationFormula ==
    IsSome(wait_duration) =>
        Unwrap(wait_duration) =
            Duration_from_secs(ExpectedWaitSecs(Unwrap(wait_retry_count)))

\* The counters of the observable statistics.
ObservedCounters(stats) ==
    <<stats.num_docs, stats.num_uploaded_splits, stats.num_published_splits>>

\* The join of the observations of an Observe tick returns.
JoinReturns ==
    /\ IsSome(pipeline_suspended) /\ IsSome(pipeline_suspended')
    /\ Unwrap(pipeline_suspended).at = "observe"
    /\ Unwrap(pipeline_suspended').at = "schedule_self_msg"

\* C21: an Observe tick on a generation makes the statistics the counters
\* saved for the earlier generations plus the counters of the generation's
\* indexer, uploader and publisher, each as its actor answered it while the
\* tick awaited the three, with generation and num_spawn_attempts as they
\* were; a successful spawn saves the counters observed so far; and no
\* observed counter ever decreases.
C21_StatisticsCarriedOver ==
    [][/\ \A i \in 1..3 : ObservedCounters(statistics')[i] >= ObservedCounters(statistics)[i]
       /\ JoinReturns =>
              LET observed == Unwrap(pipeline_suspended').observed
                  started == PipelineStarted.state
              IN  /\ ObservedCounters(statistics') =
                         << previous_generations_statistics.num_docs
                                + Unwrap(observed.indexer),
                            previous_generations_statistics.num_uploaded_splits
                                + Unwrap(observed.uploader),
                            previous_generations_statistics.num_published_splits
                                + Unwrap(observed.publisher) >>
                  /\ \A actor \in DOMAIN observed :
                         /\ Unwrap(observed[actor]) >=
                                Unwrap(started.handles).counters[actor]
                         /\ Unwrap(observed[actor]) <= Unwrap(handles).counters[actor]
                  /\ statistics'.generation = statistics.generation
                  /\ statistics'.num_spawn_attempts = statistics.num_spawn_attempts
       /\ (statistics' # statistics /\ spawned' = spawned) => JoinReturns
       /\ (~IsSome(handles) /\ IsSome(handles')) =>
              /\ ObservedCounters(previous_generations_statistics') =
                     ObservedCounters(statistics)
              /\ statistics'.generation = statistics.generation + 1]_vars

\* C21 witness: the second generation is observed with one split published
\* by the first generation and one by the second.
C21_Witness ==
    /\ pipeline_last.msg = "Observe"
    /\ statistics.generation = 2
    /\ IsSome(handles)
    /\ Unwrap(handles).counters.publisher = 1
    /\ previous_generations_statistics.num_published_splits = 1
    /\ statistics.num_published_splits = 2

\* The actors the last spawn attempt spawned, in order.
SpawnedActors(log) == SelectSeq(log, LAMBDA step : step.op = "spawn_actor")

\* The kill switches the actors of the last spawn attempt were spawned with.
KillSwitchesOf(log) == {SpawnedActors(log)[i].kill_switch : i \in DOMAIN SpawnedActors(log)}

\* C22: the children of a generation are the 14 supervised actors, all on
\* the one kill switch the supervisor holds, which is not dead; every spawn
\* attempt creates a kill switch that no earlier attempt used and spawns its
\* actors on it; and terminate kills the switch of the generation it drops,
\* no other switch being ever killed.
C22_OneKillSwitchPerGeneration ==
    /\ [](IsSome(handles) =>
              /\ {SpawnedActors(children)[i].actor : i \in DOMAIN SpawnedActors(children)}
                     = Supervisables
              /\ Len(SpawnedActors(children)) = NumSupervisables
              /\ KillSwitchesOf(children) = {Some(kill_switch.id)}
              /\ Unwrap(handles).kill_switch = kill_switch.id
              /\ ~kill_switch.dead)
    /\ [][/\ spawned'.attempts # spawned.attempts =>
                 /\ kill_switch'.id > kill_switch.id
                 /\ ~kill_switch'.dead
                 /\ KillSwitchesOf(children') \subseteq {Some(kill_switch'.id)}
          /\ children' # children =>
                 /\ kill_switch'.id = PipelineStarted.state.kill_switch.id + 1
                 /\ ~kill_switch'.dead
                 /\ KillSwitchesOf(children') \subseteq {Some(kill_switch'.id)}
          /\ (IsSome(handles) /\ ~IsSome(handles')) =>
                 kill_switch' = [id |-> Unwrap(handles).kill_switch, dead |-> TRUE]
          /\ (kill_switch'.dead /\ ~kill_switch.dead) =>
                 (IsSome(handles) /\ kill_switch'.id = kill_switch.id)]_vars

\* C22 witness: a second generation runs on its own kill switch, the first
\* one having been terminated.
C22_Witness ==
    /\ IsSome(handles)
    /\ statistics.generation = 2
    /\ Len(SpawnedActors(children)) = NumSupervisables
    /\ KillSwitchesOf(children) = {Some(kill_switch.id)}
    /\ kill_switch.id >= 2
    /\ ~kill_switch.dead

\* The mailboxes that exist before step i of a spawn attempt: those created
\* by create_mailbox and those of the actors spawned.
MailboxesBefore(log, i) ==
    {log[j].actor : j \in {k \in 1..(i - 1) : log[k].op \in {"create_mailbox", "spawn_actor"}}}

\* C23: in a spawned generation the actors were spawned in the order garbage
\* collector, merge publisher, merge sequencer, merge uploader, merge
\* packager, merge executor, merge split downloader, merge planner,
\* publisher, sequencer, uploader, packager, indexer, source; and in every
\* attempt every mailbox an actor is given exists before the actor is
\* spawned, those of the merge planner and of the source being created
\* before the publishers that hold them.
C23_SpawnedLeavesFirst ==
    /\ IsSome(handles) =>
           [i \in DOMAIN SpawnedActors(children) |-> SpawnedActors(children)[i].actor] =
               << "GarbageCollector", "MergePublisher", "MergeSequencer", "MergeUploader",
                  "MergePackager", "MergeExecutor", "MergeSplitDownloader", "MergePlanner",
                  "Publisher", "Sequencer", "Uploader", "Packager", "Indexer",
                  "SourceActor" >>
    /\ \A i \in DOMAIN children :
           children[i].op = "spawn_actor" =>
               children[i].mailboxes \subseteq MailboxesBefore(children, i)
    /\ \A i, j \in DOMAIN children :
           (/\ children[i].op = "spawn_actor"
            /\ children[i].actor \in {"Publisher", "MergePublisher"}
            /\ children[j].op = "create_mailbox"
            /\ children[j].actor \in children[i].mailboxes) => j < i

\* C23 witness: a generation has been spawned, the source last.
C23_Witness ==
    /\ IsSome(handles)
    /\ Len(children) = Len(SpawnSequence)
    /\ children[Len(children)].op = "spawn_actor"
    /\ children[Len(children)].actor = "SourceActor"
    /\ "MergePlanner" \in MailboxesBefore(children, 6)

\* -------------------------------------------------- claims: merge policy

\* operations has returned.
OperationsReturned == IsSome(merge_ops) /\ ~Unwrap(merge_ops).panicked

\* The operations returned.
ReturnedOperations == Unwrap(merge_ops).operations

RECURSIVE SplitsOfOperations(_)
SplitsOfOperations(ops) ==
    IF ops = <<>> THEN <<>> ELSE Head(ops).splits \o SplitsOfOperations(Tail(ops))

\* The splits of the operations returned, followed by those left.
SplitsAfterOperations == SplitsOfOperations(ReturnedOperations) \o merge_splits

\* The splits of the sequence that are mature for the policy called.
MatureSplits(splits) ==
    {splits[i] : i \in {j \in DOMAIN splits :
                           is_mature_for_merge(Unwrap(merge_policy), splits[j])}}

\* C24: operations returns, and every split of the vector it was given is
\* once and only once among the splits of the operations returned and the
\* splits left, which are as many as were given.
C24_OperationsPartitionSplits ==
    IsSome(merge_ops) =>
        /\ ~Unwrap(merge_ops).panicked
        /\ Unwrap(merge_ops).debug_assert_eq[1] = Unwrap(merge_ops).debug_assert_eq[2]
        /\ SumOperationsLen(ReturnedOperations) + Len(merge_splits) = Len(merge_input)
        /\ \A i \in DOMAIN merge_input :
               Cardinality({j \in DOMAIN SplitsAfterOperations :
                               SplitsAfterOperations[j] = merge_input[i]}) = 1

\* C24 witness: of four splits, two were merged in one operation and two
\* are left, a mature one and an immature one.
C24_Witness ==
    /\ OperationsReturned
    /\ Len(merge_input) = 4
    /\ Len(ReturnedOperations) = 1
    /\ Len(ReturnedOperations[1].splits) = 2
    /\ Len(merge_splits) = 2
    /\ Cardinality(MatureSplits(merge_splits)) = 1

\* C25: no operation returned holds a mature split; the mature splits given
\* are all left, as they were; the operations are those returned for the
\* other splits alone; and a policy with merging disabled returns no
\* operation and leaves the vector as it was.
C25_MatureSplitsNeverMerged ==
    IsSome(merge_ops) =>
        /\ ~Unwrap(merge_ops).panicked
        /\ MatureSplits(SplitsOfOperations(ReturnedOperations)) = {}
        /\ MatureSplits(merge_input) = MatureSplits(merge_splits)
        /\ ReturnedOperations =
               merge_operations(
                   Unwrap(merge_policy),
                   SelectSeq(merge_input,
                             LAMBDA split : ~is_mature_for_merge(Unwrap(merge_policy), split))
               ).operations
        /\ ~Unwrap(merge_policy).merge_enabled =>
               (ReturnedOperations = <<>> /\ merge_splits = merge_input)

\* C25 witness: of five splits, five others and a mature one between them,
\* the ten were merged and the mature one is left.
C25_Witness ==
    /\ OperationsReturned
    /\ Len(merge_input) = 11
    /\ MatureSplits(merge_input) = {merge_input[6]}
    /\ merge_splits = <<merge_input[6]>>
    /\ Len(ReturnedOperations) = 1
    /\ Len(ReturnedOperations[1].splits) = 10

\* The splits given are immature and have the same number of documents and
\* the same time range.
SameSizedImmatureSplits ==
    /\ IsSome(merge_policy)
    /\ Unwrap(merge_policy).merge_enabled
    /\ MatureSplits(merge_input) = {}
    /\ \A i, j \in DOMAIN merge_input :
           /\ merge_input[i].num_docs = merge_input[j].num_docs
           /\ merge_input[i].time_range = merge_input[j].time_range

\* The splits of the sequence, as a set.
SplitSet(splits) == {splits[i] : i \in DOMAIN splits}

\* C26, as stated: merge_factor same-sized immature splits give one
\* operation holding them all, and none is left.
C26_JustEnoughSplits_AsStated ==
    (/\ IsSome(merge_ops)
     /\ SameSizedImmatureSplits
     /\ Len(merge_input) = Unwrap(merge_policy).merge_factor) =>
        /\ OperationsReturned
        /\ Len(ReturnedOperations) = 1
        /\ SplitSet(ReturnedOperations[1].splits) = SplitSet(merge_input)
        /\ merge_splits = <<>>

\* C26: merge_factor same-sized immature splits give one operation holding
\* them all, none being left, when merge_factor - 1 of them have fewer than
\* split_num_docs_target documents in all and merge_factor <=
\* max_merge_factor.
C26_JustEnoughSplits ==
    (/\ IsSome(merge_ops)
     /\ SameSizedImmatureSplits
     /\ Len(merge_input) = Unwrap(merge_policy).merge_factor
     /\ Unwrap(merge_policy).merge_factor <= Unwrap(merge_policy).max_merge_factor
     /\ (Unwrap(merge_policy).merge_factor - 1) * merge_input[1].num_docs
            < Unwrap(merge_policy).split_num_docs_target) =>
        /\ OperationsReturned
        /\ Len(ReturnedOperations) = 1
        /\ SplitSet(ReturnedOperations[1].splits) = SplitSet(merge_input)
        /\ Len(ReturnedOperations[1].splits) = Len(merge_input)
        /\ merge_splits = <<>>

\* C26 witness: the default policy has merged ten splits of 100 documents.
C26_Witness ==
    /\ OperationsReturned
    /\ merge_policy = Some(MergePolicyDefault)
    /\ SameSizedImmatureSplits
    /\ Len(merge_input) = DefaultMergeFactor
    /\ merge_input[1].num_docs = 100
    /\ Len(ReturnedOperations) = 1
    /\ merge_splits = <<>>

\* C27, as stated: fewer than merge_factor same-sized immature splits give no
\* operation, and all are left.
C27_NotEnoughSplits_AsStated ==
    (/\ IsSome(merge_ops)
     /\ SameSizedImmatureSplits
     /\ Len(merge_input) < Unwrap(merge_policy).merge_factor) =>
        /\ OperationsReturned
        /\ ReturnedOperations = <<>>
        /\ SplitSet(merge_splits) = SplitSet(merge_input)

\* C27: fewer than merge_factor same-sized immature splits give no operation
\* and are all left, when they have fewer than split_num_docs_target
\* documents in all and merge_factor <= max_merge_factor.
C27_NotEnoughSplits ==
    (/\ IsSome(merge_ops)
     /\ SameSizedImmatureSplits
     /\ Len(merge_input) < Unwrap(merge_policy).merge_factor
     /\ Unwrap(merge_policy).merge_factor <= Unwrap(merge_policy).max_merge_factor
     /\ SumNumDocsOf(merge_input) < Unwrap(merge_policy).split_num_docs_target) =>
        /\ OperationsReturned
        /\ ReturnedOperations = <<>>
        /\ merge_splits = merge_input

\* C27 witness: the default policy has left nine splits of 100 documents.
C27_Witness ==
    /\ OperationsReturned
    /\ merge_policy = Some(MergePolicyDefault)
    /\ SameSizedImmatureSplits
    /\ Len(merge_input) = DefaultMergeFactor - 1
    /\ merge_input[1].num_docs = 100
    /\ ReturnedOperations = <<>>
    /\ merge_splits = merge_input

\* Thirteen same-sized immature splits were given to a policy with
\* merge_factor = 10 and max_merge_factor = 12.
ThirteenSameSizedSplits ==
    /\ IsSome(merge_ops)
    /\ SameSizedImmatureSplits
    /\ Unwrap(merge_policy).merge_factor = DefaultMergeFactor
    /\ Unwrap(merge_policy).max_merge_factor = DefaultMaxMergeFactor
    /\ Len(merge_input) = MaxSameSizedSplits

\* One operation was returned, of all the splits given but the first, which
\* is left.
AllButTheFirstMerged ==
    /\ OperationsReturned
    /\ Len(ReturnedOperations) = 1
    /\ ReturnedOperations[1].splits = Tail(merge_input)
    /\ merge_splits = <<Head(merge_input)>>

\* C28, as stated: thirteen same-sized immature splits give, with
\* merge_factor = 10 and max_merge_factor = 12, one operation of the last
\* twelve, the first being left.
C28_ManySplitsOnSameLevel_AsStated == ThirteenSameSizedSplits => AllButTheFirstMerged

\* C28: thirteen same-sized immature splits give, with merge_factor = 10 and
\* max_merge_factor = 12, one operation of the last twelve, the first being
\* left, when eleven of them have fewer than split_num_docs_target documents
\* in all.
C28_ManySplitsOnSameLevel ==
    (/\ ThirteenSameSizedSplits
     /\ (DefaultMaxMergeFactor - 1) * merge_input[1].num_docs
            < Unwrap(merge_policy).split_num_docs_target) =>
        (AllButTheFirstMerged /\ Len(ReturnedOperations[1].splits) = DefaultMaxMergeFactor)

\* C28 witness: thirteen splits of 100 documents, the last twelve merged.
C28_Witness ==
    /\ ThirteenSameSizedSplits
    /\ merge_input[1].num_docs = 100
    /\ AllButTheFirstMerged
    /\ Len(ReturnedOperations[1].splits) = 12

\* The values the tests expect of max_num_splits_worst_case and of
\* max_num_splits_ideal_case.
WorstCaseOfTests ==
    (99 :> 9) @@ (1000000 :> 27) @@ (2000000 :> 36) @@ (3000000 :> 36) @@ (4000000 :> 36)
    @@ (5000000 :> 45) @@ (7000000 :> 45) @@ (10000000 :> 45) @@ (20000000 :> 54)
    @@ (100000000 :> 63) @@ (1000000000 :> 153)

IdealCaseOfTests ==
    (1000000 :> 18) @@ (99 :> 9) @@ (2000000 :> 20) @@ (3000000 :> 21) @@ (4000000 :> 22)
    @@ (5000000 :> 23) @@ (7000000 :> 25) @@ (10000000 :> 27) @@ (100000000 :> 37)
    @@ (1000000000 :> 127)

\* C29: with the default policy max_num_splits_worst_case and
\* max_num_splits_ideal_case return the values of the tests, 45 for
\* 10_000_000 and 18 for 1_000_000 among them, and no split for no document.
C29_MaxNumSplitsOfTests ==
    /\ (/\ IsSome(max_num_splits.worst_case)
        /\ Unwrap(max_num_splits_docs) \in DOMAIN WorstCaseOfTests) =>
           Unwrap(max_num_splits.worst_case) = WorstCaseOfTests[Unwrap(max_num_splits_docs)]
    /\ (/\ IsSome(max_num_splits.ideal_case)
        /\ Unwrap(max_num_splits_docs) \in DOMAIN IdealCaseOfTests) =>
           Unwrap(max_num_splits.ideal_case) = IdealCaseOfTests[Unwrap(max_num_splits_docs)]
    /\ (IsSome(max_num_splits.worst_case) /\ max_num_splits_docs = Some(10000000)) =>
           max_num_splits.worst_case = Some(45)
    /\ (IsSome(max_num_splits.ideal_case) /\ max_num_splits_docs = Some(1000000)) =>
           max_num_splits.ideal_case = Some(18)
    /\ (IsSome(max_num_splits.worst_case) /\ max_num_splits_docs = Some(0)) =>
           max_num_splits.worst_case = Some(0)

\* C29 witness: both functions have been called with 10_000_000.
C29_Witness ==
    /\ max_num_splits_docs = Some(10000000)
    /\ max_num_splits = [worst_case |-> Some(45), ideal_case |-> Some(27)]

\* -------------------------------------------- claims: the indexer's counters

\* C30: whatever the RawDocBatch, NewPublishLock and CommitTimeout messages
\* handled, num_docs_in_workbench is the number of valid documents held by
\* the splits of the current workbench, and 0 when there is no workbench.
C30_NumDocsInWorkbenchIsWorkbenchDocs ==
    ~IsSome(suspended) =>
    counters.num_docs_in_workbench =
        IF IsSome(indexing_workbench_opt)
        THEN NumDocsInSplits(Unwrap(indexing_workbench_opt).indexed_splits)
        ELSE 0

\* The valid documents accepted since the workbench that is current, or was
\* just taken, was created.
RECURSIVE SumIngested(_)
SumIngested(partitions) ==
    IF partitions = {} THEN 0
    ELSE LET p == CHOOSE q \in partitions : TRUE
         IN  ingested[p] + SumIngested(partitions \ {p})

\* C32: every IndexedSplitBatch sent to the packager holds a split at least,
\* carries a checkpoint delta, each of its splits holds a document at least,
\* and its splits hold together the valid documents accepted since the
\* workbench was created.
C32_SplitBatchHoldsWorkbenchDocs ==
    \A i \in DOMAIN packager_inbox :
        LET batch == packager_inbox[i]
        IN  /\ DOMAIN batch.splits # {}
            /\ IsSome(batch.checkpoint_delta)
            /\ \A p \in DOMAIN batch.splits : batch.splits[p].num_docs >= 1
            /\ NumDocsInSplits(batch.splits) = SumIngested(Partitions)

\* C32 witness: a CommitTimeout flushed a workbench fed two valid documents
\* of two partition keys and an invalid one.
C32_Witness ==
    /\ last.msg = "CommitTimeout"
    /\ Len(packager_inbox) = 1
    /\ DOMAIN packager_inbox[1].splits = {1, 2}
    /\ NumDocsInSplits(packager_inbox[1].splits) = 2
    /\ num_invalid_docs(counters) = 1
    /\ packager_inbox[1].checkpoint_delta # Some(EmptyDelta)

\* C33: metastore.publish_splits is called only by a flush, for a workbench
\* without splits, with no split id, and under a guard acquire() gave for
\* the publish lock of that workbench: the lock is not dead.
C33_PublishOnlyUnderGuard ==
    \A i \in DOMAIN publish_splits_calls :
        /\ IsSome(taken)
        /\ IsSome(PublishLockAcquire(Unwrap(taken).publish_lock, dead_locks))
        /\ Unwrap(taken).publish_lock = publish_lock
        /\ NumSplits(Unwrap(taken)) = 0
        /\ publish_splits_calls[i].split_ids = <<>>
        /\ publish_splits_calls[i].replaced_split_ids = <<>>
        /\ packager_inbox = <<>>
        /\ Len(publish_splits_calls) = 1

\* C33 witness: the first lock was killed and replaced by a live one, and a
\* workbench of invalid documents created under the new lock was published.
C33_Witness ==
    /\ publish_lock = 1
    /\ dead_locks = {0}
    /\ Len(publish_splits_calls) = 1
    /\ IsSome(taken)
    /\ Unwrap(taken).publish_lock = 1
    /\ publish_splits_calls[1].checkpoint_delta_opt # Some(EmptyDelta)

\* ----------------------------------------- claims: the supervisor's children

\* The Spawn messages among msgs.
SpawnsIn(msgs) == {m \in msgs : m.msg = "Spawn"}

\* C34: while there are handles no Spawn is pending, and a Spawn handled
\* then would change nothing and schedule nothing, whatever its retry_count
\* and whatever the attempt would meet; at most one Spawn is pending; and a
\* handler schedules a Spawn only when none is left pending beside the one
\* it handles.
C34_OneGenerationOneSpawn ==
    /\ [](/\ Cardinality(SpawnsIn(pending)) <= 1
          /\ IsSome(handles) =>
                 /\ SpawnsIn(pending) = {}
                 /\ \A retry_count \in 0..MaxSpawnFailures, outcome \in SpawnOutcomes :
                        handle_spawn(SpawnMsg(retry_count, HEARTBEAT), outcome,
                                     PipelineCurrent) = PipelineCurrent)
    /\ [][/\ (SpawnsIn(pending') \ SpawnsIn(pending)) # {} =>
                 /\ SpawnsIn(pending) = {}
                 /\ SpawnsIn(PipelineStarted.pending) \subseteq
                        {Unwrap(pipeline_suspended).m}
                 /\ ~IsSome(handles')
          /\ ~IsSome(pipeline_suspended') =>
                 SpawnsIn(pipeline_last'.scheduled) \subseteq SpawnsIn(pending')
          /\ (IsSome(handles) /\ IsSome(handles')) =>
                 /\ statistics'.generation = statistics.generation
                 /\ statistics'.num_spawn_attempts = statistics.num_spawn_attempts
                 /\ children' = children
                 /\ kill_switch' = kill_switch]_vars

\* C34 witness: the second generation runs, spawned by the Spawn that the
\* Supervise tick scheduled when it terminated the first, and no Spawn is
\* pending.
C34_Witness ==
    /\ IsSome(handles)
    /\ statistics.generation = 2
    /\ pipeline_last.msg = "Spawn"
    /\ SpawnsIn(pending) = {}

\* C35: when a spawn attempt replaces the kill switch, the actors the
\* attempt before it has spawned are on a kill switch that is dead.
C35_FailedAttemptChildrenKilled ==
    [][(/\ kill_switch'.id # kill_switch.id
        /\ Len(SpawnedActors(children)) > 0) =>
            /\ KillSwitchesOf(children) = {Some(kill_switch.id)}
            /\ kill_switch.dead]_vars

\* C36: a Supervise tick that terminates a generation has called kill() on
\* the handle of every actor of supervisables(), and awaited it.
C36_TerminateKillsEverySupervisable ==
    (SupervisedGeneration /\ LastHealth = "FailureOrUnhealthy") =>
        pipeline_last.killed = Supervisables

\* ------------------------------------- claims: the merge operations returned

\* The policy operations was called on takes two splits at least for a
\* merge, and no fewer at most than at least.
MergeFactorsInOrder ==
    /\ 2 <= Unwrap(merge_policy).merge_factor
    /\ Unwrap(merge_policy).merge_factor <= Unwrap(merge_policy).max_merge_factor

\* C37: with 2 <= merge_factor <= max_merge_factor, every merge operation
\* returned has 2 splits at least and max_merge_factor at most, and one of
\* fewer than merge_factor splits has split_num_docs_target documents at
\* least.
C37_OperationSizes ==
    (OperationsReturned /\ MergeFactorsInOrder) =>
        \A i \in DOMAIN ReturnedOperations :
            LET splits == ReturnedOperations[i].splits
            IN  /\ Len(splits) >= 2
                /\ Len(splits) <= Unwrap(merge_policy).max_merge_factor
                /\ Len(splits) < Unwrap(merge_policy).merge_factor =>
                       SumNumDocsOf(splits) >= Unwrap(merge_policy).split_num_docs_target

\* C37 witness: of the splits of 9_999_997, 9_999_998 and 9_999_999
\* documents the default policy has merged the last two.
C37_Witness ==
    /\ OperationsReturned
    /\ merge_policy = Some(MergePolicyDefault)
    /\ Len(merge_input) = 3
    /\ merge_input[1].num_docs = 9999997
    /\ Len(ReturnedOperations) = 1
    /\ Len(ReturnedOperations[1].splits) = 2
    /\ SumNumDocsOf(ReturnedOperations[1].splits) = 19999997

\* C38: the splits of a merge operation returned hold together fewer than
\* twice split_num_docs_target documents.
C38_OperationBelowTwiceTarget ==
    OperationsReturned =>
        \A i \in DOMAIN ReturnedOperations :
            SumNumDocsOf(ReturnedOperations[i].splits)
                < 2 * Unwrap(merge_policy).split_num_docs_target

\* C38 witness: of thirteen splits of 5_000_000 documents the default policy
\* has merged two, which reach split_num_docs_target.
C38_Witness ==
    /\ OperationsReturned
    /\ merge_policy = Some(MergePolicyDefault)
    /\ Len(merge_input) = MaxSameSizedSplits
    /\ merge_input[1].num_docs = 5000000
    /\ Len(ReturnedOperations) = 1
    /\ SumNumDocsOf(ReturnedOperations[1].splits) = DefaultSplitNumDocsTarget

\* The immature splits given, as merge_operations sorts them, and their
\* levels.
SortedImmatureSplits ==
    sort_by_key(SelectSeq(merge_input,
                          LAMBDA split : ~is_mature_for_merge(Unwrap(merge_policy), split)))

LevelsOfSortedSplits == build_split_levels(Unwrap(merge_policy), SortedImmatureSplits)

\* The splits of the operation are the last ones of the level.
TakenFromEndOfLevel(op, level) ==
    /\ Len(op.splits) <= level.end - level.start
    /\ op.splits = Slice(SortedImmatureSplits, level.end - Len(op.splits), level.end)

\* C39: every operation returned holds the last splits of one level of the
\* sorted immature splits, as they follow one another there; the operations
\* are of different levels, a higher level first; and the splits left are
\* the other immature splits in their sorted order, then the mature ones.
C39_OneOperationPerLevel ==
    (OperationsReturned /\ Unwrap(merge_policy).merge_enabled /\ Len(merge_input) >= 2) =>
        /\ Len(ReturnedOperations) <= Len(LevelsOfSortedSplits)
        /\ \A i \in DOMAIN ReturnedOperations :
               \E l \in DOMAIN LevelsOfSortedSplits :
                   /\ TakenFromEndOfLevel(ReturnedOperations[i], LevelsOfSortedSplits[l])
                   /\ \A j \in DOMAIN ReturnedOperations :
                          j > i =>
                              \E k \in 1..(l - 1) :
                                  TakenFromEndOfLevel(ReturnedOperations[j],
                                                      LevelsOfSortedSplits[k])
        /\ merge_splits =
               SelectSeq(SortedImmatureSplits,
                         LAMBDA split :
                             \A i \in DOMAIN ReturnedOperations :
                                 split \notin SplitSet(ReturnedOperations[i].splits))
               \o SelectSeq(merge_input,
                            LAMBDA split : is_mature_for_merge(Unwrap(merge_policy), split))

\* C39 witness: two levels of two splits each, and an operation for each,
\* that of the larger splits first.
C39_Witness ==
    /\ OperationsReturned
    /\ Len(merge_input) = 4
    /\ Len(LevelsOfSortedSplits) = 2
    /\ Len(ReturnedOperations) = 2
    /\ ReturnedOperations[1].splits[1].num_docs = 3
    /\ ReturnedOperations[2].splits[1].num_docs = 1
    /\ merge_splits = <<>>

\* The cap of the level l of levels over splits.
LevelMaxDocs(policy, splits, levels, l) ==
    IF l = 1
    THEN IF 3 * splits[1].num_docs >= policy.min_level_num_docs
         THEN 3 * splits[1].num_docs ELSE policy.min_level_num_docs
    ELSE 3 * splits[levels[l].start + 1].num_docs

\* C40: with min_level_num_docs > 0, build_split_levels returns no level
\* for no split and otherwise ranges that are not empty, follow one another
\* and cover the vector; the cap of the first level is the larger of three
\* times the documents of the first split and min_level_num_docs, the cap of
\* another level three times the documents of its first split; the first
\* split of a level but the first has the cap of the level before at least,
\* and every other split has fewer documents than the cap of its level.
C40_BuildSplitLevels ==
    (/\ IsSome(split_groups)
     /\ ~Unwrap(split_groups).panicked
     /\ Unwrap(merge_policy).min_level_num_docs > 0) =>
        LET levels == Unwrap(split_groups).levels
            policy == Unwrap(merge_policy)
        IN  /\ (merge_input = <<>>) <=> (levels = <<>>)
            /\ levels # <<>> =>
                   /\ levels[1].start = 0
                   /\ levels[Len(levels)].end = Len(merge_input)
            /\ \A l \in DOMAIN levels :
                   /\ levels[l].start < levels[l].end
                   /\ l > 1 =>
                          /\ levels[l].start = levels[l - 1].end
                          /\ merge_input[levels[l].start + 1].num_docs
                                 >= LevelMaxDocs(policy, merge_input, levels, l - 1)
                   /\ \A split_ord \in (levels[l].start + 1)..(levels[l].end - 1) :
                          merge_input[split_ord + 1].num_docs
                              < LevelMaxDocs(policy, merge_input, levels, l)
                   /\ l = 1 =>
                          merge_input[1].num_docs
                              < LevelMaxDocs(policy, merge_input, levels, 1)

\* C40 witness: the levels 0..8 and 8..11 of the vector of the test with a
\* split of 100_000 documents after the one of 800_000.
C40_Witness ==
    /\ IsSome(split_groups)
    /\ merge_policy = Some(MergePolicyDefault)
    /\ Len(merge_input) = 11
    /\ merge_input[10].num_docs = 100000
    /\ Unwrap(split_groups) = [levels |-> <<Range(0, 8), Range(8, 11)>>, panicked |-> FALSE]

\* ------------------------------------------------ claims: the commit timeout

\* The workbench w is current.
WorkbenchIsCurrent(w) ==
    IsSome(indexing_workbench_opt) /\ Unwrap(indexing_workbench_opt).workbench_id = w

\* The workbench w was flushed by the last handler, or discarded: by a
\* NewPublishLock, or by an exit that is not graceful.
FlushedOrDiscarded(w) ==
    \/ IsSome(taken) /\ Unwrap(taken).workbench_id = w /\ ~IsSome(suspended)
    \/ last.msg = "NewPublishLock" /\ ~IsSome(indexing_workbench_opt)
    \/ exit_status \in {Some("Killed"), Some("Failure"), Some("Panicked"),
                        Some("DownstreamClosed")}

\* C31: the CommitTimeout of the current workbench is scheduled and not yet
\* delivered, one CommitTimeout being scheduled when a workbench is created
\* (by the handler of a RawDocBatch that finds none, before it stores it) and
\* at no other time; its delivery flushes the workbench; and a workbench that
\* is current is flushed in the end, or discarded by a NewPublishLock or by
\* an exit that is not graceful.
C31_WorkbenchFlushedInTheEnd ==
    /\ [](IsSome(indexing_workbench_opt) =>
              /\ next_timeout <= Unwrap(indexing_workbench_opt).workbench_id
              /\ Unwrap(indexing_workbench_opt).workbench_id = next_ulid - 1)
    /\ [][/\ next_ulid' \in {next_ulid, next_ulid + 1}
          /\ (next_ulid' = next_ulid + 1) <=>
                 (/\ ~IsSome(suspended)
                  /\ ~IsSome(indexing_workbench_opt)
                  /\ IsSome(suspended')
                  /\ Unwrap(suspended').msg = "RawDocBatch"
                  /\ Unwrap(suspended').at = "schedule_self_msg"
                  /\ Unwrap(suspended').workbench.workbench_id = next_ulid)
          /\ (/\ IsSome(suspended)
              /\ Unwrap(suspended).at = "schedule_self_msg"
              /\ suspended' # suspended) =>
                 /\ IsSome(WorkbenchAfter)
                 /\ Unwrap(WorkbenchAfter).workbench_id = next_ulid - 1
                 /\ Unwrap(WorkbenchAfter).workbench_id >= next_timeout
          /\ (/\ last'.msg = "CommitTimeout"
              /\ IsSome(Started.workbench_opt)
              /\ Unwrap(Started.workbench_opt).workbench_id = last'.id) =>
                 (taken' = Started.workbench_opt /\ ~IsSome(indexing_workbench_opt'))]_vars
    /\ \A w \in 1..MaxWorkbenches : WorkbenchIsCurrent(w) ~> FlushedOrDiscarded(w)

\* C31 witness: the CommitTimeout of the second workbench, which a document
\* was accepted into, has flushed it.
C31_Witness ==
    /\ last.msg = "CommitTimeout"
    /\ last.id = 2
    /\ IsSome(taken)
    /\ Unwrap(taken).workbench_id = 2
    /\ NumSplits(Unwrap(taken)) = 1
    /\ ~IsSome(indexing_workbench_opt)

====
